---- MODULE Spec2Model ----
(***************************************************************************)
(* Model of the Tuya BLE cloud credential code:                            *)
(*   custom_components/tuya_ble/tuya_cloud_api.py  (TuyaCloudAPI)          *)
(*   custom_components/tuya_ble/cloud.py  (HASSTuyaBLEDeviceManager)       *)
(*   custom_components/tuya_ble/config_flow.py  (login, device steps)      *)
(*   custom_components/tuya_ble/holiday.py  (HolidayModeHelper)            *)
(*   custom_components/tuya_ble/__init__.py  (set_holiday_mode service)     *)
(*                                                                         *)
(* SpecApi is one client and the calls of its public methods; Spec is the  *)
(* credential cache with concurrent callers; SpecSeq is the cache with one *)
(* caller and every kind of answer of the cloud; SpecFlow is the steps of  *)
(* the config flow and of the options flow; SpecPure is one call of a      *)
(* function that has no state; SpecHoliday is the config entries that are  *)
(* set up and unloaded and the calls of the service set_holiday_mode.      *)
(*                                                                         *)
(* Python values.  A str is a TLA+ string; None is the sentinel None; a    *)
(* dict is a function from its keys; a concatenation of strings is the     *)
(* sequence of its non-empty parts; a MAC/address is a sequence of         *)
(* characters (it is sliced); an exception is a result with raised = TRUE. *)
(***************************************************************************)
EXTENDS Integers, Sequences, FiniteSets, TLC

VARIABLES
    client,     \* SpecApi: one TuyaCloudAPI object
    last,       \* SpecApi: what the last public call did
    cache,      \* Spec: cloud._cache, in insertion order
    dicts,      \* Spec: heap of the data dictionaries (manager._data, locals)
    tasks,      \* Spec: the coroutines
    calls,      \* Spec: number of operations started so far
    pure,       \* SpecPure: a function, its input and what it returned
    hass,       \* SpecHoliday: the set-up entries and the service registry
    config_flow \* SpecFlow: the config flow object

vars == <<client, last, cache, dicts, tasks, calls, pure, hass, config_flow>>

None == "<None>"
\* a dict-valued attribute that holds None (never compared with a str)
NoneDict == [none |-> TRUE]

\* Python truthiness of a str-or-None value
Truthy(v) == v # None /\ v # ""

\* dict.get(k, default)
DictGet(d, k, default) == IF k \in DOMAIN d THEN d[k] ELSE default

\* a + b + ... of strings: the non-empty parts in order
Concat(parts) == SelectSeq(parts, LAMBDA s : s # "")

-----------------------------------------------------------------------------
(* const.py *)

CONF_ACCESS_ID == "access_id"
CONF_ACCESS_SECRET == "access_secret"
CONF_REGION == "region"
CONF_TUYA_DEVICE_ID == "tuya_device_id"
CONF_ADDRESS == "address"
CONF_DEVICE_ID == "device_id"
CONF_UUID == "uuid"
CONF_LOCAL_KEY == "local_key"
CONF_CATEGORY == "category"
CONF_PRODUCT_ID == "product_id"
CONF_DEVICE_NAME == "device_name"
CONF_PRODUCT_MODEL == "product_model"
CONF_PRODUCT_NAME == "product_name"
TUYA_RESPONSE_CODE == "code"
TUYA_RESPONSE_MSG == "msg"
TUYA_RESPONSE_RESULT == "result"
TUYA_RESPONSE_SUCCESS == "success"
TUYA_FACTORY_INFO_MAC == "mac"
TUYA_API_FACTORY_INFO_URL(device_id) ==
    <<"/v1.0/iot-03/devices/factory-infos?device_ids=", device_id>>

-----------------------------------------------------------------------------
(* The transport: what one HTTP exchange can end in.                       *)
(*   neterr   session.get/post raises (connection error, timeout)          *)
(*   nonjson  json.loads raises on the body                                *)
(*   json     json.loads returns `body`: [type |-> "object", obj |-> dict] *)
(*            or a JSON value that is no object (array, null)              *)

TrNetErr == [kind |-> "neterr"]
TrNonJson == [kind |-> "nonjson"]
TrJson(body) == [kind |-> "json", body |-> body]
JObject(obj) == [type |-> "object", obj |-> obj]
JArray(items) == [type |-> "array", items |-> items]
JNull == [type |-> "null"]
JString(chars) == [type |-> "string", chars |-> chars]

IsDict(j) == j.type = "object"
\* j[k] does not raise: j is an object that has the key k
HasItem(j, k) == j.type = "object" /\ k \in DOMAIN j.obj
\* bool(j) of a JSON value
JTruthy(j) ==
    CASE j.type = "object" -> DOMAIN j.obj # {}
      [] j.type = "array" -> j.items # <<>>
      [] j.type = "string" -> j.chars # <<>>
      [] OTHER -> FALSE

\* str(e) of the exception a transport outcome raises in _make_request
RequestFailed(tr) == IF tr.kind = "neterr" THEN "Request failed: connect"
                     ELSE "Request failed: json"
AttributeErrorText == "object has no attribute 'get'"
KeyErrorText == "KeyError"
TypeErrorText == "TypeError"

-----------------------------------------------------------------------------
(* tuya_cloud_api.py *)

\* TuyaCloudAPI.__init__ ; raises AttributeError when api_region is None
api_init(api_region, api_key, api_secret, api_device_id) ==
    IF api_region = None
    THEN [raised |-> TRUE, text |-> AttributeErrorText]
    ELSE [raised |-> FALSE,
          api |-> [api_region |-> api_region, api_key |-> api_key,
                   api_secret |-> api_secret, api_device_id |-> api_device_id,
                   token |-> None, error |-> NoneDict, session |-> FALSE]]

Sha256(body) == <<"sha256", body>>
\* Fault: the signature does not depend on the secret
generate_signature_mutant(api, payload) == <<"HMAC-SHA256", payload>>
\* _generate_signature, lines 78-88: the HMAC as a one-to-one function of
\* the secret and the payload
generate_signature(api, payload) == <<"HMAC-SHA256", api.api_secret, payload>>

StartsWithSlash(uri) == uri # <<>> /\ uri[1] \in
    {"/v1.0/iot-01/associated-users/devices",
     "/v1.0/iot-03/devices/factory-infos?device_ids=", "/"}

\* The request _make_request builds and sends (lines 108-149, 161-167)
build_request(api, uri, method, data, t) ==
    LET url_path == IF StartsWithSlash(uri) THEN uri ELSE <<"/v1.0/">> \o uri
        hasBody == data # NoneDict /\ DOMAIN data # {}
        body == IF hasBody THEN <<"json", data>> ELSE <<>>
        h0 == [client_id |-> api.api_key, sign_method |-> "HMAC-SHA256", t |-> t]
        h1 == IF hasBody THEN h0 @@ ("Content-Type" :> "application/json") ELSE h0
        base == IF api.token = None
                THEN Concat(<<api.api_key, t>>)
                ELSE Concat(<<api.api_key, api.token, t>>)
        h2 == IF api.token = None
              THEN h1 @@ ("secret" :> api.api_secret)
              ELSE h1 @@ ("access_token" :> api.token)
        payload == base \o <<method, "\n", Sha256(body), "\n\n">> \o url_path
    IN [uri |-> uri, path |-> url_path, method |-> method,
        verb |-> IF method = "GET" THEN "GET" ELSE "POST",
        base |-> base, payload |-> payload,
        signedBody |-> body,
        sentBody |-> IF method = "GET" THEN <<>> ELSE body,
        headers |-> h2 @@ ("sign" :> generate_signature(api, payload))]

\* TuyaCloudAPI._make_request: the request, and the response or the raise.
\* With api_key None line 133 (None + str) raises, with api_secret None line 84
\* (None.encode) does: both before the session is opened and anything is sent.
make_request(api, uri, method, data, t, tr) ==
    IF api.api_key = None \/ api.api_secret = None
    THEN [req |-> build_request(api, uri, method, data, t), sent |-> FALSE,
          api |-> api, raised |-> TRUE, text |-> TypeErrorText, result |-> JNull]
    ELSE [req |-> build_request(api, uri, method, data, t), sent |-> TRUE,
          api |-> [api EXCEPT !.session = TRUE],
          raised |-> tr.kind # "json",
          text |-> IF tr.kind # "json" THEN RequestFailed(tr) ELSE "",
          result |-> IF tr.kind = "json" THEN tr.body ELSE JNull]

\* the requests a _make_request outcome r stands for
Sent(r) == IF r.sent THEN <<r.req>> ELSE <<>>

ErrorDict(msg, code) == [success |-> FALSE, msg |-> msg, code |-> code]
Envelope(msg) == JObject([success |-> FALSE, msg |-> msg])

\* Result of a client method: the client afterwards, the value returned (or
\* raised = TRUE and the exception text), the requests it sent.
Ret(api, ret, reqs) == [api |-> api, ret |-> ret, raised |-> FALSE, reqs |-> reqs]
Raise(api, text, reqs) == [api |-> api, ret |-> None, raised |-> TRUE,
                           text |-> text, reqs |-> reqs]

\* get_token lines 186-199: what it does with the response r of its request
get_token_response(r) ==
    IF r.raised THEN Raise(r.api, r.text, Sent(r))
    ELSE IF ~IsDict(r.result) THEN Raise(r.api, AttributeErrorText, Sent(r))
    ELSE IF ~DictGet(r.result.obj, "success", FALSE)
    THEN Ret([r.api EXCEPT !.error =
                  ErrorDict(DictGet(r.result.obj, "msg", "Unknown error"),
                            DictGet(r.result.obj, "code", None))],
             None, Sent(r))
    ELSE IF ~("result" \in DOMAIN r.result.obj
              /\ HasItem(r.result.obj.result, "access_token"))
    THEN Raise(r.api, KeyErrorText, Sent(r))
    ELSE Ret([r.api EXCEPT !.token = r.result.obj.result.obj.access_token,
                           !.error = NoneDict],
             r.result.obj.result.obj.access_token, Sent(r))

\* Fault: the except clause returns None without storing the error
get_token_except_mutant(b) == IF b.raised THEN Ret(b.api, None, b.reqs) ELSE b

\* get_token lines 201-208: its except clause, applied to the try block's end b
get_token_except(b) ==
    IF b.raised
    THEN Ret([b.api EXCEPT !.error = ErrorDict(b.text, None)], None, b.reqs)
    ELSE b

\* TuyaCloudAPI.get_token
get_token(api, t, tr) ==
    get_token_except(get_token_response(
        make_request(api, <<"token?grant_type=1">>, "GET", NoneDict, t, tr)))

\* The "if not self.token: await self.get_token()" prologue of a method:
\* the client after it, the requests it sent and the answers left to use.
prologue_done(g, trs) == [api |-> g.api, reqs |-> g.reqs, rest |-> Tail(trs)]
token_prologue(api, t, trs) ==
    IF ~Truthy(api.token)
    THEN prologue_done(get_token(api, t, trs[1]), trs)
    ELSE [api |-> api, reqs |-> <<>>, rest |-> trs]

\* a method's result b, with the requests sent before it
After(reqs, b) == [b EXCEPT !.reqs = reqs \o b.reqs]

\* get_user_id lines 228-233: what it does with the response r of its request
get_user_id_response(r) ==
    IF r.raised THEN Raise(r.api, r.text, Sent(r))
    ELSE IF ~IsDict(r.result) THEN Raise(r.api, AttributeErrorText, Sent(r))
    ELSE IF ~DictGet(r.result.obj, "success", FALSE) THEN Ret(r.api, None, Sent(r))
    ELSE IF ~("result" \in DOMAIN r.result.obj
              /\ HasItem(r.result.obj.result, "uid"))
    THEN Raise(r.api, KeyErrorText, Sent(r))
    ELSE Ret(r.api, r.result.obj.result.obj.uid, Sent(r))

\* get_user_id lines 235-237: its except clause
get_user_id_except(b) == IF b.raised THEN Ret(b.api, None, b.reqs) ELSE b

\* get_user_id after its prologue p
get_user_id_body(p, device_id, t) ==
    IF ~Truthy(p.api.token) THEN Ret(p.api, None, p.reqs)
    ELSE After(p.reqs, get_user_id_except(get_user_id_response(
             make_request(p.api, <<"devices/", device_id>>, "GET", NoneDict, t,
                          p.rest[1]))))

\* TuyaCloudAPI.get_user_id
get_user_id(api, device_id, t, trs) ==
    get_user_id_body(token_prologue(api, t, trs), device_id, t)

\* get_devices lines 267-275: what it does with the response r of the list request
get_devices_response(r) ==
    IF r.raised THEN Raise(r.api, r.text, Sent(r))
    ELSE IF ~IsDict(r.result) THEN Raise(r.api, AttributeErrorText, Sent(r))
    ELSE IF ~DictGet(r.result.obj, "success", FALSE)
    THEN Ret(r.api, r.result, Sent(r))
    ELSE IF "result" \in DOMAIN r.result.obj /\ r.result.obj.result.type = "null"
    THEN Raise(r.api, TypeErrorText, Sent(r))   \* len(None), line 274
    ELSE Ret(r.api, r.result, Sent(r))

\* Fault: the device list is requested whatever the user-id lookup gave
get_devices_of_user_mutant(u, t, trs) ==
    After(u.reqs, get_devices_response(
        make_request(u.api, <<"users/", u.ret, "/devices">>, "GET", NoneDict,
                     t, trs[2])))

\* get_devices lines 259-262: after the user-id lookup u
get_devices_of_user(u, t, trs) ==
    IF ~Truthy(u.ret)
    THEN Ret(u.api, Envelope("Failed to get user ID"), u.reqs)
    ELSE After(u.reqs, get_devices_response(
             make_request(u.api, <<"users/", u.ret, "/devices">>, "GET", NoneDict,
                          t, trs[2])))

\* get_devices lines 254-267: the try block (token held)
get_devices_try(api, user_id, t, trs) ==
    IF Truthy(user_id)
    THEN get_devices_response(
             make_request(api, <<"users/", user_id, "/devices">>, "GET", NoneDict,
                          t, trs[1]))
    ELSE IF Truthy(api.api_device_id)
    THEN get_devices_of_user(get_user_id(api, api.api_device_id, t, trs), t, trs)
    ELSE get_devices_response(
             make_request(api, <<"/v1.0/iot-01/associated-users/devices">>, "GET",
                          NoneDict, t, trs[1]))

\* get_devices lines 277-279: its except clause
get_devices_except(b) ==
    IF b.raised THEN Ret(b.api, Envelope(b.text), b.reqs) ELSE b

\* get_devices after its prologue p
get_devices_body(p, user_id, t) ==
    IF ~Truthy(p.api.token)
    THEN Ret(p.api, Envelope("Failed to get token"), p.reqs)
    ELSE After(p.reqs, get_devices_except(get_devices_try(p.api, user_id, t, p.rest)))

\* TuyaCloudAPI.get_devices
get_devices(api, user_id, t, trs) ==
    get_devices_body(token_prologue(api, t, trs), user_id, t)

\* cloud_request line 305: the try block, given the outcome r of _make_request
cloud_request_response(r) ==
    IF r.raised THEN Raise(r.api, r.text, Sent(r))
    ELSE Ret(r.api, r.result, Sent(r))

\* Fault: cloud_request without its except clause
cloud_request_except_mutant(b) == b

\* cloud_request lines 306-308: its except clause
cloud_request_except(b) ==
    IF b.raised THEN Ret(b.api, Envelope(b.text), b.reqs) ELSE b

\* Fault: the request is sent whether or not a token is held
cloud_request_body_mutant(p, url, method, data, t) ==
    After(p.reqs, cloud_request_except(cloud_request_response(
        make_request(p.api, url, method, data, t, p.rest[1]))))

\* cloud_request after its prologue p
cloud_request_body(p, url, method, data, t) ==
    IF ~Truthy(p.api.token)
    THEN Ret(p.api, Envelope("Failed to get token"), p.reqs)
    ELSE After(p.reqs, cloud_request_except(cloud_request_response(
             make_request(p.api, url, method, data, t, p.rest[1]))))

\* TuyaCloudAPI.cloud_request
cloud_request(api, url, method, data, t, trs) ==
    cloud_request_body(token_prologue(api, t, trs), url, method, data, t)

-----------------------------------------------------------------------------
(* The cloud the model talks to: two devices, and every way an exchange    *)
(* with each endpoint can end.                                             *)

Now == "1700000000000"

Device(n) == [id |-> "d" \o n, uuid |-> "uuid" \o n, local_key |-> "key" \o n,
              category |-> "cat" \o n, product_id |-> "pid" \o n,
              name |-> "name" \o n, model |-> "model" \o n,
              product_name |-> "pname" \o n]
Dev1 == Device("1")
Dev2 == Device("2")

Ok(result) == TrJson(JObject([success |-> TRUE, result |-> result]))
Failure(msg, code) == TrJson(JObject([success |-> FALSE, msg |-> msg, code |-> code]))
BadOutcomes ==
    {TrNetErr, TrNonJson, TrJson(JArray(<<>>)), TrJson(JArray(<<"x">>)), TrJson(JNull),
     Failure("invalid client", "1001"),
     TrJson(JObject([success |-> FALSE])),
     TrJson(JObject([success |-> TRUE])),
     Ok(JNull), Ok(JObject(<<>>))}

Tokens == {"T1", "T2"}
TokenOutcomes ==
    BadOutcomes
    \cup {Ok(JObject([access_token |-> tok])) : tok \in Tokens \cup {"", None}}
UserOutcomes ==
    BadOutcomes \cup {Ok(JObject([uid |-> u])) : u \in {"uid1", ""}}
ApiDeviceLists == {<<>>, <<Dev1>>}
DevicesOutcomes == BadOutcomes \cup {Ok(JArray(l)) : l \in ApiDeviceLists}
AnyOutcomes == BadOutcomes \cup {Ok(JArray(<<>>))}

\* the exchanges that can answer a request, by its endpoint
OutcomesFor(req) ==
    CASE req.uri[1] = "token?grant_type=1" -> TokenOutcomes
      [] req.uri[1] = "devices/" -> UserOutcomes
      [] req.uri[1] \in {"users/", "/v1.0/iot-01/associated-users/devices"} ->
             DevicesOutcomes
      [] OTHER -> AnyOutcomes

\* The transport answers each request a method sends, in turn: a method is
\* run on a sequence of three answers, of which it uses as many as it sends
\* requests; Unused fills the places of the answers it never asks for.  r is
\* the run with the answers before place n chosen: the answers for place n.
Unused == TrNetErr
Answers(r, n) == IF Len(r.reqs) < n THEN {Unused} ELSE OutcomesFor(r.reqs[n])

-----------------------------------------------------------------------------
(* SpecApi: one TuyaCloudAPI object and the calls of its public methods.   *)

Methods == {"GET", "POST", "PUT", "DELETE"}
Bodies == {NoneDict, [x |-> "1"]}

NewClient(device_id) == api_init("eu", "key1", "secret1", device_id).api

NoCall == [fn |-> "", input |-> <<>>, applied |-> FALSE, output |-> <<>>]
\* the config entries, one device each
NEntries == 3
Entries == 1..NEntries
\* hass before any entry is set up: hass.data[DOMAIN] is empty, no handler is
\* registered for set_holiday_mode, no device was written to; call is the
\* last service call
NoServiceCall ==
    [device_id |-> None, args |-> NoneDict, setup |-> {}, service |-> 0,
     device |-> 0, data |-> NoneDict, wrote |-> {}]
NoHass ==
    [setup |-> {}, service |-> 0, dp103 |-> [e \in Entries |-> NoneDict],
     call |-> NoServiceCall]
\* TuyaBLEConfigFlow.__init__: _get_device_info_error = False; history: the
\* number of attempts of the device step, whether one of them got no
\* credentials
NewFlow ==
    [get_device_info_error |-> FALSE, attempts |-> 0, not_registered |-> FALSE]
cacheVars == <<cache, dicts, tasks, calls, pure, hass, config_flow>>

\* last: the call, its argument, what it returned, the requests it sent and
\* the answers they got, the token the client held before
Called(op, arg, r, before, trs) ==
    /\ UNCHANGED cacheVars
    /\ client' = r.api
    /\ last' = [op |-> op, arg |-> arg, ret |-> r.ret, raised |-> r.raised,
                reqs |-> r.reqs, answers |-> SubSeq(trs, 1, Len(r.reqs)),
                tokenBefore |-> before.token]

ApiNew ==
    /\ \E device_id \in {"", "dev0"} : client' = NewClient(device_id)
    /\ last' = [op |-> "new", arg |-> None, ret |-> None, raised |-> FALSE,
                reqs |-> <<>>, answers |-> <<>>, tokenBefore |-> None]
    /\ UNCHANGED cacheVars

ApiGetToken ==
    \E tr \in TokenOutcomes :
        Called("get_token", None, get_token(client, Now, tr), client, <<tr>>)

ApiGetUserId ==
    \E tr1 \in Answers(get_user_id(client, "dev9", Now, <<Unused, Unused>>), 1) :
    \E tr2 \in Answers(get_user_id(client, "dev9", Now, <<tr1, Unused>>), 2) :
        Called("get_user_id", "dev9", get_user_id(client, "dev9", Now, <<tr1, tr2>>),
               client, <<tr1, tr2>>)

GetDevicesRun(user_id, trs) == get_devices(client, user_id, Now, trs)
ApiGetDevices ==
    \E user_id \in {None, "uid7"} :
    \E tr1 \in Answers(GetDevicesRun(user_id, <<Unused, Unused, Unused>>), 1) :
    \E tr2 \in Answers(GetDevicesRun(user_id, <<tr1, Unused, Unused>>), 2) :
    \E tr3 \in Answers(GetDevicesRun(user_id, <<tr1, tr2, Unused>>), 3) :
        Called("get_devices", user_id, GetDevicesRun(user_id, <<tr1, tr2, tr3>>),
               client, <<tr1, tr2, tr3>>)

CloudRequestRun(method, data, trs) ==
    cloud_request(client, TUYA_API_FACTORY_INFO_URL("d1"), method, data, Now, trs)
ApiCloudRequest ==
    \E method \in Methods, data \in Bodies :
    \E tr1 \in Answers(CloudRequestRun(method, data, <<Unused, Unused>>), 1) :
    \E tr2 \in Answers(CloudRequestRun(method, data, <<tr1, Unused>>), 2) :
        Called("cloud_request", method, CloudRequestRun(method, data, <<tr1, tr2>>),
               client, <<tr1, tr2>>)

ApiInit ==
    /\ client = NewClient("")
    /\ last = [op |-> "new", arg |-> None, ret |-> None, raised |-> FALSE,
               reqs |-> <<>>, answers |-> <<>>, tokenBefore |-> None]
    /\ cache = <<>> /\ dicts = <<>> /\ tasks = <<>> /\ calls = 0
    /\ pure = NoCall
    /\ hass = NoHass
    /\ config_flow = NewFlow

ApiNext ==
    \/ ApiNew
    \/ ApiGetToken
    \/ ApiGetUserId
    \/ ApiGetDevices
    \/ ApiCloudRequest

SpecApi == ApiInit /\ [][ApiNext]_vars

-----------------------------------------------------------------------------
(* cloud.py: the pure helpers *)

CONF_TUYA_LOGIN_KEYS ==
    <<CONF_ACCESS_ID, CONF_ACCESS_SECRET, CONF_TUYA_DEVICE_ID, CONF_REGION>>
CONF_TUYA_DEVICE_KEYS ==
    <<CONF_UUID, CONF_LOCAL_KEY, CONF_DEVICE_ID, CONF_CATEGORY, CONF_PRODUCT_ID,
      CONF_DEVICE_NAME, CONF_PRODUCT_NAME, CONF_PRODUCT_MODEL>>

\* a.update(b) of two dicts
Update(a, b) == b @@ a

is_login_success(response) == DictGet(response, TUYA_RESPONSE_SUCCESS, FALSE)

\* json.dumps of a str or None: the quoted string, or null
JsonNull == <<"null">>
json_dumps_value(v) == IF v = None THEN JsonNull ELSE <<"\"", v, "\"">>

\* Fault: the key made without the region
get_cache_key_mutant(data) ==
    [i \in 1..3 |->
        <<CONF_TUYA_LOGIN_KEYS[i],
          json_dumps_value(DictGet(data, CONF_TUYA_LOGIN_KEYS[i], None))>>]

\* json.dumps({key: data.get(key) for key in CONF_TUYA_LOGIN_KEYS}): the four
\* "key": value members in the order of CONF_TUYA_LOGIN_KEYS
get_cache_key(data) ==
    [i \in 1..Len(CONF_TUYA_LOGIN_KEYS) |->
        <<CONF_TUYA_LOGIN_KEYS[i],
          json_dumps_value(DictGet(data, CONF_TUYA_LOGIN_KEYS[i], None))>>]

has_login(data) ==
    \A i \in 1..Len(CONF_TUYA_LOGIN_KEYS) :
        DictGet(data, CONF_TUYA_LOGIN_KEYS[i], None) # None

has_credentials(data) ==
    \A i \in 1..Len(CONF_TUYA_DEVICE_KEYS) :
        DictGet(data, CONF_TUYA_DEVICE_KEYS[i], None) # None

\* cache_key = None
NoKey == <<>>

\* _cache.get(key): the place of the item in the cache, 0 when there is none
CacheIndex(c, key) ==
    IF \E i \in 1..Len(c) : c[i].key = key
    THEN CHOOSE i \in 1..Len(c) : c[i].key = key
    ELSE 0

TuyaCloudCacheItem(key, api, login, credentials) ==
    [key |-> key, api |-> api, login |-> login, credentials |-> credentials]

\* lines 273-276: the first key whose item has credentials for the address
ScanCache(c, address) ==
    IF \E i \in 1..Len(c) : address \in DOMAIN c[i].credentials
    THEN c[CHOOSE i \in 1..Len(c) :
               /\ address \in DOMAIN c[i].credentials
               /\ \A j \in 1..(i - 1) : address \notin DOMAIN c[j].credentials].key
    ELSE NoKey

\* s[i : i + 2] of a str s (0-based i)
Slice2(s, i) ==
    SubSeq(s, i + 1, IF i + 2 <= Len(s) THEN i + 2 ELSE Len(s))

UpperChar(c) ==
    CASE c = "a" -> "A" [] c = "b" -> "B" [] c = "c" -> "C"
      [] c = "d" -> "D" [] c = "e" -> "E" [] c = "f" -> "F"
      [] OTHER -> c
Upper(s) == [i \in 1..Len(s) |-> UpperChar(s[i])]

\* Fault: the mac joined but not put in upper case
normalize_mac_mutant(mac) ==
    Slice2(mac, 0) \o <<":">> \o Slice2(mac, 2) \o <<":">> \o Slice2(mac, 4)
    \o <<":">> \o Slice2(mac, 6) \o <<":">> \o Slice2(mac, 8) \o <<":">>
    \o Slice2(mac, 10)

\* lines 203-206: ":".join(mac[i : i + 2] for i in range(0, 12, 2)).upper()
normalize_mac(mac) ==
    Upper(Slice2(mac, 0) \o <<":">> \o Slice2(mac, 2) \o <<":">> \o Slice2(mac, 4)
          \o <<":">> \o Slice2(mac, 6) \o <<":">> \o Slice2(mac, 8) \o <<":">>
          \o Slice2(mac, 10))

\* lines 207-217: the record stored for a device of the device list
make_credentials(mac, device) ==
    (CONF_ADDRESS :> mac)
    @@ [uuid |-> DictGet(device, "uuid", None),
        local_key |-> DictGet(device, "local_key", None),
        device_id |-> DictGet(device, "id", None),
        category |-> DictGet(device, "category", None),
        product_id |-> DictGet(device, "product_id", None),
        device_name |-> DictGet(device, "name", None),
        product_model |-> DictGet(device, "model", None),
        product_name |-> DictGet(device, "product_name", None)]

\* lines 289-298: TuyaBLEDeviceCredentials(credentials.get(CONF_UUID, ""), ...)
TuyaBLEDeviceCredentials(credentials) ==
    [uuid |-> DictGet(credentials, CONF_UUID, ""),
     local_key |-> DictGet(credentials, CONF_LOCAL_KEY, ""),
     device_id |-> DictGet(credentials, CONF_DEVICE_ID, ""),
     category |-> DictGet(credentials, CONF_CATEGORY, ""),
     product_id |-> DictGet(credentials, CONF_PRODUCT_ID, ""),
     device_name |-> DictGet(credentials, CONF_DEVICE_NAME, ""),
     product_model |-> DictGet(credentials, CONF_PRODUCT_MODEL, ""),
     product_name |-> DictGet(credentials, CONF_PRODUCT_NAME, "")]

-----------------------------------------------------------------------------
(* The installation the managers run in: two cloud accounts, the managers   *)
(* with the data they were constructed with, the config entries build_cache *)
(* reads.                                                                   *)

NTasks == 2
MaxCalls == 2

EmptyDict == <<>>

\* account A owns Dev1 and Dev2, account B owns no device
LoginA == [access_id |-> "keyA", access_secret |-> "secA",
           tuya_device_id |-> "devA", region |-> "eu"]
LoginB == [access_id |-> "keyB", access_secret |-> "secB",
           tuya_device_id |-> "", region |-> "us"]
AccountDevices(api_key) == IF api_key = "keyA" THEN <<Dev1, Dev2>> ELSE <<>>
\* what the device list of an account can read: account A has Dev1, and Dev2
\* once it is paired
DeviceLists(api_key) ==
    IF api_key = "keyA" THEN {<<Dev1>>, <<Dev1, Dev2>>} ELSE {<<>>}

\* the mac the factory info of a device carries
RawMac(device_id) ==
    IF device_id = "d1"
    THEN <<"a", "a", "b", "b", "c", "c", "d", "d", "e", "e", "f", "f">>
    ELSE <<"1", "1", "2", "2", "3", "3", "4", "4", "5", "5", "6", "6">>

AddrAA == <<"A", "A", ":", "B", "B", ":", "C", "C", ":", "D", "D", ":",
            "E", "E", ":", "F", "F">>
Addr11 == <<"1", "1", ":", "2", "2", ":", "3", "3", ":", "4", "4", ":",
            "5", "5", ":", "6", "6">>
AddrFF == <<"F", "F", ":", "F", "F", ":", "F", "F", ":", "F", "F", ":",
            "F", "F", ":", "F", "F">>
\* the address of Dev1 as the device step of the config flow accepts it too
AddrLower == <<"a", "a", ":", "b", "b", ":", "c", "c", ":", "d", "d", ":",
               "e", "e", ":", "f", "f">>
\* the addresses credentials are asked for: a device of account A, no device
Addresses == {AddrAA, AddrFF}

\* the canonical address of a device of the cloud
AddressOf(device_id) == IF device_id = "d1" THEN AddrAA ELSE Addr11

\* the addresses of the devices the account of a login owns
OwnedAddresses(api_key) ==
    {AddressOf(AccountDevices(api_key)[i].id) :
        i \in 1..Len(AccountDevices(api_key))}

\* the device fields a config entry of an already set up Dev1 holds
StoredDevice1 ==
    [uuid |-> "uuid1", local_key |-> "key1", device_id |-> "d1",
     category |-> "cat1", product_id |-> "pid1", device_name |-> "name1",
     product_model |-> "model1", product_name |-> "pname1"]

\* manager._data at construction: a set up entry without device fields, the
\* config flow's empty dict, an entry of account B, a completely set up entry
ManagerData == <<LoginA, EmptyDict, LoginB, Update(LoginA, StoredDevice1)>>
Managers == 1..Len(ManagerData)
FlowManager == 2
\* the manager and the address of the config entry whose options are edited
OptionsManager == 4
OptionsAddress == AddrAA

\* hass.config_entries.async_entries(TUYA_DOMAIN) data, then
\* the data of the config entry of TUYA_DOMAIN, then the options of the
\* config entries of DOMAIN: a device set up with a login, one set up without
ConfigEntries ==
    <<[access_id |-> "keyB", access_secret |-> "secB"],
      Update(LoginA, StoredDevice1),
      EmptyDict>>

\* what the user can type into the login form
UserInputs == {LoginA, LoginB}

\* Every way an exchange with the cloud can end, by endpoint: the true answer
\* of the cloud, or a failure.
FactoryInfo(mac) == [mac |-> mac, sn |-> "sn"]
FactoryOutcomes(device_id) ==
    {Ok(JArray(<<FactoryInfo(JString(RawMac(device_id)))>>)),
     TrNetErr,                                  \* network error
     Failure("permission deny", "1106"),        \* success = false
     Ok(JArray(<<>>)),                          \* empty result
     Ok(JArray(<<[sn |-> "sn"]>>)),             \* no mac field
     Ok(JArray(<<FactoryInfo(JNull)>>)),        \* mac is null
     Ok(JArray(<<FactoryInfo(JString(<<"a", "b", "c">>))>>)),   \* mac is short
     TrJson(JArray(<<"x">>))}                   \* response is no object
CloudAnswers(req) ==
    CASE req.uri[1] = "token?grant_type=1" ->
             {Ok(JObject([access_token |-> "T1"])),
              Failure("invalid client", "1001"), TrNetErr}
      [] req.uri[1] = "devices/" -> {Ok(JObject([uid |-> "uidA"])), TrNetErr}
      [] req.uri[1] \in {"users/", "/v1.0/iot-01/associated-users/devices"} ->
             {Ok(JArray(l)) : l \in DeviceLists(req.headers.client_id)}
             \cup {TrNetErr}
      [] OTHER -> FactoryOutcomes(req.uri[2])

\* The exchanges of a cloud that answers truly or not at all
PlainAnswers(req) ==
    CASE req.uri[1] = "token?grant_type=1" ->
             {Ok(JObject([access_token |-> "T1"])),
              Failure("invalid client", "1001"), TrNetErr}
      [] req.uri[1] = "devices/" -> {Ok(JObject([uid |-> "uidA"]))}
      [] req.uri[1] \in {"users/", "/v1.0/iot-01/associated-users/devices"} ->
             {Ok(JArray(AccountDevices(req.headers.client_id)))}
      [] OTHER -> {Ok(JArray(<<FactoryInfo(JString(RawMac(req.uri[2])))>>)), TrNetErr}

\* every = TRUE: every way an exchange can end
AnswersTo(req, every) == IF every THEN CloudAnswers(req) ELSE PlainAnswers(req)
CloudAnswersAt(r, n, every) ==
    IF Len(r.reqs) < n THEN {Unused} ELSE AnswersTo(r.reqs[n], every)

-----------------------------------------------------------------------------
(* cloud.py, config_flow.py: the coroutines.  A task is one running call;   *)
(* it stands at an await of an HTTP exchange (pc = token, devices, factory) *)
(* or has returned (pc = done).  A world w is the cache, the dict heap and  *)
(* the task that is running.                                                *)

NoApi == NoneDict
NoAnswer == [kind |-> "none"]

IdleTask ==
    [pc |-> "idle", op |-> "", mgr |-> 0, address |-> <<>>, force |-> FALSE,
     save |-> FALSE, fast |-> FALSE, cache_key |-> NoKey, item |-> NoKey,
     api |-> NoApi, data |-> 0, phase |-> 0, entry |-> 0, devs |-> <<>>,
     idx |-> 0, response |-> EmptyDict, result |-> NoneDict, add |-> TRUE,
     \* the flows: the dict made of the user's input, the FlowResult returned
     input |-> 0, flow |-> NoneDict, get_device_info_error |-> FALSE,
     \* history: the number of the call, what held when it started, the URIs
     \* requested so far, the last answer received, what the last _login that
     \* asked for a token returned
     call |-> 0, empty0 |-> FALSE, known0 |-> FALSE, reqs |-> <<>>,
     answer |-> NoAnswer, login |-> EmptyDict]

World(c, d, task) == [cache |-> c, dicts |-> d, task |-> task]

Uris(reqs) == [i \in 1..Len(reqs) |-> reqs[i].uri]
Logged(w, reqs, tr) ==
    [w EXCEPT !.task.reqs = @ \o Uris(reqs), !.task.answer = tr]

\* _login has returned the response that is in the task
Returned(w) == [w EXCEPT !.task.login = w.task.response]

\* the call has returned
Done(w) == [w EXCEPT !.task.pc = "done"]

\* a call of get_device_credentials is running, on its own or in a flow
InGdc(w) == w.task.op = "get_device_credentials" \/ w.task.phase = 3

\* config_flow.py, _show_login_form, lines 83-117
LoginForm(user_input, errors, placeholders) ==
    [type |-> "form", step_id |-> "login",
     defaults |-> [access_id |-> DictGet(user_input, CONF_ACCESS_ID, ""),
                   access_secret |-> DictGet(user_input, CONF_ACCESS_SECRET, ""),
                   tuya_device_id |-> DictGet(user_input, CONF_TUYA_DEVICE_ID, ""),
                   region |-> DictGet(user_input, CONF_REGION, "eu")],
     errors |-> errors, description_placeholders |-> placeholders]

\* _show_device_form, lines 417-448: the addresses to choose from (the
\* default is the first of them) and the manual entry
DeviceForm(discovered, errors) ==
    [type |-> "form", step_id |-> "device",
     options |-> discovered \cup {<<"manual">>},
     errors |-> errors,
     description_placeholders |-> [scan_status |-> "Scanning"]]

\* _perform_enhanced_discovery, lines 312-415, when no device advertises and
\* none is configured: the addresses of the cache, added to those there are
Discovered(c, known) ==
    IF known # {} THEN known
    ELSE UNION {DOMAIN c[i].credentials : i \in 1..Len(c)}

\* async_step_device lines 304-310
device_form(w, known, errors) ==
    Done([w EXCEPT !.task.flow =
             IF Discovered(w.cache, known) = {}
             THEN [type |-> "abort", reason |-> "no_unconfigured_devices"]
             ELSE DeviceForm(Discovered(w.cache, known), errors)])

device_finish_mutant(w) ==
    LET w1 == [w EXCEPT !.dicts[w.task.mgr] =
                            Update(@, [address |-> w.task.address])]
    IN  IF w.task.result = NoneDict
        THEN device_form(w1, {w.task.address}, [base |-> "device_not_registered"])
        ELSE Done([w1 EXCEPT !.task.flow =
                      [type |-> "create_entry",
                       data |-> [address |-> w.task.address],
                       options |-> w1.dicts[w.task.mgr]]])

\* async_step_device lines 293-310, get_device_credentials having returned
device_finish(w) ==
    LET w1 == [w EXCEPT !.dicts[w.task.mgr] =
                            Update(@, [address |-> w.task.address])]
    IN  IF w.task.result = NoneDict
        THEN device_form([w1 EXCEPT !.task.get_device_info_error = TRUE],
                         {w.task.address}, [base |-> "device_not_registered"])
        ELSE Done([w1 EXCEPT !.task.flow =
                      [type |-> "create_entry",
                       data |-> [address |-> w.task.address],
                       options |-> w1.dicts[w.task.mgr]]])

\* TuyaBLEOptionsFlow.async_step_login lines 158-170
options_finish(w) ==
    IF w.task.result = NoneDict
    THEN Done([w EXCEPT !.task.flow =
                  LoginForm(w.dicts[w.task.input],
                            [base |-> "device_not_registered"], EmptyDict)])
    ELSE Done([w EXCEPT !.task.flow =
                  [type |-> "create_entry", data |-> w.dicts[w.task.mgr]]])

\* get_device_credentials returns to its caller, line 305
gdc_return(w) ==
    CASE w.task.phase # 3 -> Done(w)
      [] w.task.op = "options.async_step_login" -> options_finish(w)
      [] OTHER -> device_finish(w)

\* get_device_credentials lines 288-305, with credentials found in item i of
\* the cache (i = 0: item is None)
gdc_found(w, credentials, i) ==
    LET saved == IF i # 0
                 THEN Update(Update(w.dicts[w.task.mgr], w.dicts[w.cache[i].login]),
                             credentials)
                 ELSE Update(w.dicts[w.task.mgr], credentials)
    IN  gdc_return([w EXCEPT !.task.result = TuyaBLEDeviceCredentials(credentials),
                             !.dicts[w.task.mgr] = IF w.task.save THEN saved ELSE @])

\* Fault: the lookup takes a credential of the item whatever the address
gdc_lookup_mutant(w, i) ==
    IF i # 0 /\ DOMAIN w.cache[i].credentials # {}
    THEN gdc_found(w, w.cache[i].credentials[
                          CHOOSE a \in DOMAIN w.cache[i].credentials : TRUE], i)
    ELSE gdc_return(w)

\* get_device_credentials lines 285-305: item is the task's item
gdc_lookup(w, i) ==
    IF i # 0 /\ w.task.address \in DOMAIN w.cache[i].credentials
    THEN gdc_found(w, w.cache[i].credentials[w.task.address], i)
    ELSE gdc_return(w)
gdc_finish(w) == gdc_lookup(w, CacheIndex(w.cache, w.task.item))

\* _fill_cache_item line 184: item.api.get_devices() is awaited
fill_start(w, key) ==
    [w EXCEPT !.task.pc = "devices", !.task.item = key,
              !.task.api = w.cache[CacheIndex(w.cache, key)].api,
              !.task.devs = <<>>, !.task.idx = 0]

\* the first device after place i that has an id (0: none)
NextWithId(devs, i) ==
    IF \E j \in (i + 1)..Len(devs) : Truthy(DictGet(devs[j], "id", None))
    THEN CHOOSE j \in (i + 1)..Len(devs) :
             /\ Truthy(DictGet(devs[j], "id", None))
             /\ \A k \in (i + 1)..(j - 1) : ~Truthy(DictGet(devs[k], "id", None))
    ELSE 0

\* Fault: the failure response without the client's error
login_failed_mutant(api) == ErrorDict("Authentication failed", None)

\* login response of _login, lines 149-162
login_failed(api) ==
    IF api.error # NoneDict
    THEN ErrorDict(DictGet(api.error, "msg", "error"), DictGet(api.error, "code", None))
    ELSE ErrorDict("Authentication failed", None)

login_succeeded(token) ==
    [success |-> TRUE, result |-> [access_token |-> token]]

\* Fault: a new entry takes the place of the entries there are
add_to_cache_mutant(w, api, i) ==
    IF i # 0
    THEN [w EXCEPT !.cache[i].api = api, !.cache[i].login = w.task.data]
    ELSE [w EXCEPT !.cache = <<TuyaCloudCacheItem(
                       get_cache_key(w.dicts[w.task.data]), api, w.task.data,
                       EmptyDict)>>]

\* Fault: the entry there is starts again with an empty credentials dict
add_to_cache_clear_mutant(w, api, i) ==
    IF i # 0
    THEN [w EXCEPT !.cache[i].api = api, !.cache[i].login = w.task.data,
                   !.cache[i].credentials = EmptyDict]
    ELSE [w EXCEPT !.cache = Append(@, TuyaCloudCacheItem(
                       get_cache_key(w.dicts[w.task.data]), api, w.task.data,
                       EmptyDict))]

\* _login lines 140-147
add_to_cache(w, api, i) ==
    IF i # 0
    THEN [w EXCEPT !.cache[i].api = api, !.cache[i].login = w.task.data]
    ELSE [w EXCEPT !.cache = Append(@, TuyaCloudCacheItem(
                       get_cache_key(w.dicts[w.task.data]), api, w.task.data,
                       EmptyDict))]

\* Fault: _login adds to the cache whatever add_to_cache is
login_after_token_mutant(w, g, data) ==
    IF Truthy(g.ret)
    THEN IF CONF_ACCESS_ID \notin DOMAIN data
         THEN [w EXCEPT !.task.response = ErrorDict(KeyErrorText, None)]
         ELSE IF data[CONF_ACCESS_ID] = None
         THEN [w EXCEPT !.task.response = ErrorDict(TypeErrorText, None)]
         ELSE [add_to_cache(w, g.api, CacheIndex(w.cache, get_cache_key(data)))
                  EXCEPT !.task.response = login_succeeded(g.ret)]
    ELSE [w EXCEPT !.task.response = login_failed(g.api)]

\* _login lines 132-172, after get_token returned g: the world, with the
\* response of _login in the task (task.add is the argument add_to_cache)
login_after_token(w, g, data) ==
    IF Truthy(g.ret)
    THEN IF CONF_ACCESS_ID \notin DOMAIN data     \* line 138 raises
         THEN [w EXCEPT !.task.response = ErrorDict(KeyErrorText, None)]
         ELSE IF data[CONF_ACCESS_ID] = None
         THEN [w EXCEPT !.task.response = ErrorDict(TypeErrorText, None)]
         ELSE IF w.task.add
         THEN [add_to_cache(w, g.api, CacheIndex(w.cache, get_cache_key(data)))
                  EXCEPT !.task.response = login_succeeded(g.ret)]
         ELSE [w EXCEPT !.task.response = login_succeeded(g.ret)]
    ELSE [w EXCEPT !.task.response = login_failed(g.api)]

\* _login lines 116-130: the response when it returns without a request, or
\* the client whose get_token it awaits
login_begin(data) ==
    IF DOMAIN data = {} THEN [returns |-> TRUE, response |-> EmptyDict]
    ELSE LET a == api_init(DictGet(data, CONF_REGION, "eu"),
                           DictGet(data, CONF_ACCESS_ID, ""),
                           DictGet(data, CONF_ACCESS_SECRET, ""),
                           DictGet(data, CONF_TUYA_DEVICE_ID, ""))
         IN  IF a.raised
             THEN [returns |-> TRUE, response |-> ErrorDict(a.text, None)]
             ELSE [returns |-> FALSE, api |-> a.api]

RECURSIVE build_cache_loop(_, _)

\* Fault: build_cache returns when a fill has ended
after_fill_mutant(w) ==
    CASE InGdc(w) -> gdc_finish(w)
      [] w.task.op = "build_cache" -> Done(w)
      [] OTHER -> device_form(w, {}, EmptyDict)

\* the caller of _fill_cache_item goes on
after_fill(w) ==
    CASE InGdc(w) -> gdc_finish(w)
      [] w.task.op = "build_cache" -> build_cache_loop(w, w.task.entry + 1)
      [] OTHER -> device_form(w, {}, EmptyDict)    \* config_flow.py line 240

\* whether _cache.get(key) is an item with an empty credentials dict
EmptyItem(c, key) ==
    /\ CacheIndex(c, key) # 0
    /\ DOMAIN c[CacheIndex(c, key)].credentials = {}

RECURSIVE login_start(_, _)
RECURSIVE get_device_credentials(_, _)

\* Fault: the login form is shown again without the error of the login
try_login_failed_mutant(w) ==
    Done([w EXCEPT !.task.flow =
             LoginForm(w.dicts[w.task.input], EmptyDict, EmptyDict)])

\* _try_login lines 71-80 and the form of lines 170 and 255
try_login_failed(w) ==
    Done([w EXCEPT !.task.flow =
             LoginForm(w.dicts[w.task.input],
                       [base |-> "login_error"],
                       [code |-> DictGet(w.task.response, TUYA_RESPONSE_CODE, None),
                        msg |-> DictGet(w.task.response, TUYA_RESPONSE_MSG, None)])])

\* the caller of _login goes on with the response in the task
login_return(w) ==
    CASE InGdc(w) ->                                  \* lines 280-286
             IF is_login_success(w.task.response)
             THEN IF CacheIndex(w.cache, w.task.cache_key) # 0
                  THEN fill_start(w, w.task.cache_key)
                  ELSE gdc_finish([w EXCEPT !.task.item = NoKey])
             ELSE gdc_finish(w)
      [] w.task.op = "build_cache" ->                  \* lines 231-234
             IF is_login_success(w.task.response)
                /\ EmptyItem(w.cache, w.task.cache_key)
             THEN fill_start(w, w.task.cache_key)
             ELSE build_cache_loop(w, w.task.entry + 1)
      [] w.task.op = "login" -> Done(w)                \* line 179
      [] w.task.phase = 1 ->   \* config_flow.py lines 68-80, 154-157, 229-232
             IF is_login_success(w.task.response)
             THEN IF w.task.op = "options.async_step_login"
                  THEN get_device_credentials([w EXCEPT !.task.phase = 3],
                                              w.dicts[w.task.mgr])
                  ELSE login_start(
                           [w EXCEPT !.task.phase = 2,
                                     !.dicts[w.task.mgr] = Update(@, w.dicts[w.task.data])],
                           w.task.data)
             ELSE try_login_failed(w)
      [] OTHER ->                            \* config_flow.py lines 235-240
             IF EmptyItem(w.cache, get_cache_key(w.dicts[w.task.data]))
             THEN fill_start(w, get_cache_key(w.dicts[w.task.data]))
             ELSE device_form(w, {}, EmptyDict)

\* a call of _login(data, True), data being dict number d, up to its await
login_resume(w, b) ==
    IF b.returns
    THEN login_return([w EXCEPT !.task.response = b.response])
    ELSE [w EXCEPT !.task.pc = "token", !.task.api = b.api]
login_start(w, d) ==
    login_resume([w EXCEPT !.task.data = d], login_begin(w.dicts[d]))

\* build_cache lines 225-246 from config entry number i on: data is cleared
\* and updated from the entry; the loops end or _login is awaited
\* Fault: build_cache logs in for every entry, filled or not
build_cache_entry_mutant(w, i, key) ==
    login_start([w EXCEPT !.task.entry = i, !.task.cache_key = key], w.task.data)

build_cache_entry(w, i, key) ==
    IF CacheIndex(w.cache, key) = 0 \/ EmptyItem(w.cache, key)
    THEN login_start([w EXCEPT !.task.entry = i, !.task.cache_key = key],
                     w.task.data)
    ELSE build_cache_loop(w, i + 1)
build_cache_loop(w, i) ==
    IF i > Len(ConfigEntries) THEN Done(w)
    ELSE build_cache_entry([w EXCEPT !.dicts[w.task.data] = ConfigEntries[i]],
                           i, get_cache_key(ConfigEntries[i]))

\* _fill_cache_item lines 189-196: the loop goes on after device number idx
fill_request(w, j) ==
    IF j = 0 THEN after_fill(w)
    ELSE [w EXCEPT !.task.pc = "factory", !.task.idx = j,
                   !.task.api = w.cache[CacheIndex(w.cache, w.task.item)].api]
fill_next(w) == fill_request(w, NextWithId(w.task.devs, w.task.idx))

\* _fill_cache_item lines 186-189: the devices to iterate over, given what
\* get_devices returned (none when the response is no success; iterating a
\* dict that is not empty raises at device.get and ends the fill)
fill_devices(response) ==
    IF ~DictGet(response.obj, TUYA_RESPONSE_SUCCESS, FALSE) THEN <<>>
    ELSE IF TUYA_RESPONSE_RESULT \notin DOMAIN response.obj THEN <<>>
    ELSE IF response.obj.result.type = "array" THEN response.obj.result.items
    ELSE <<>>

\* _fill_cache_item lines 198-206 on the factory info response fi: skip the
\* device, store it under a mac, or raise (which ends the fill, line 218)
factory_info_verdict(info) ==
    IF DOMAIN info = {} \/ TUYA_FACTORY_INFO_MAC \notin DOMAIN info
    THEN [kind |-> "skip"]
    ELSE IF info.mac.type # "string" THEN [kind |-> "raise"]
    ELSE [kind |-> "store", mac |-> normalize_mac(info.mac.chars)]
factory_result_verdict(result) ==
    IF ~JTruthy(result) THEN [kind |-> "skip"]
    ELSE IF result.type = "object" THEN [kind |-> "raise"]     \* result[0]
    ELSE IF result.type = "string" THEN [kind |-> "skip"]
    ELSE factory_info_verdict(result.items[1])
factory_verdict(fi) ==
    IF ~JTruthy(fi) THEN [kind |-> "skip"]
    ELSE IF ~IsDict(fi) THEN [kind |-> "raise"]
    ELSE IF ~DictGet(fi.obj, TUYA_RESPONSE_SUCCESS, FALSE) THEN [kind |-> "skip"]
    ELSE factory_result_verdict(DictGet(fi.obj, TUYA_RESPONSE_RESULT, JNull))

\* lines 207-217: item.credentials[mac] = {...}
store_credentials(w, i, mac, device) ==
    [w EXCEPT !.cache[i].credentials = Update(@, mac :> make_credentials(mac, device))]

fill_after_factory(w, v) ==
    CASE v.kind = "skip" -> fill_next(w)
      [] v.kind = "raise" -> after_fill(w)
      [] OTHER -> fill_next(store_credentials(w, CacheIndex(w.cache, w.task.item),
                                              v.mac, w.task.devs[w.task.idx]))

\* Fault: an item with an empty credentials dict counts as no item
gdc_select_mutant(w, data) ==
    LET cache_key == IF has_login(data) THEN get_cache_key(data)
                     ELSE ScanCache(w.cache, w.task.address)
        item == IF cache_key # NoKey /\ CacheIndex(w.cache, cache_key) # 0
                THEN cache_key ELSE NoKey
        w1 == [w EXCEPT !.task.cache_key = cache_key, !.task.item = item]
    IN  IF item = NoKey \/ EmptyItem(w.cache, item) \/ w.task.force
        THEN login_start(w1, w.task.mgr)
        ELSE gdc_finish(w1)

\* Fault: an entry that holds the address is preferred to the caller's own
gdc_select_scan_mutant(w, data) ==
    LET cache_key == IF ScanCache(w.cache, w.task.address) # NoKey
                     THEN ScanCache(w.cache, w.task.address)
                     ELSE IF has_login(data) THEN get_cache_key(data) ELSE NoKey
        item == IF cache_key # NoKey /\ CacheIndex(w.cache, cache_key) # 0
                THEN cache_key ELSE NoKey
        w1 == [w EXCEPT !.task.cache_key = cache_key, !.task.item = item]
    IN  IF item = NoKey \/ w.task.force THEN login_start(w1, w.task.mgr)
        ELSE gdc_finish(w1)

\* get_device_credentials lines 266-283, up to its first await
gdc_select(w, data) ==
    LET cache_key == IF has_login(data) THEN get_cache_key(data)
                     ELSE ScanCache(w.cache, w.task.address)
        item == IF cache_key # NoKey /\ CacheIndex(w.cache, cache_key) # 0
                THEN cache_key ELSE NoKey
        w1 == [w EXCEPT !.task.cache_key = cache_key, !.task.item = item]
    IN  IF item = NoKey \/ w.task.force THEN login_start(w1, w.task.mgr)
        ELSE gdc_finish(w1)
\* Fault: get_device_credentials without the test of line 266
get_device_credentials_mutant(w, data) == gdc_select(w, data)

\* get_device_credentials lines 254-305, up to its first await
get_device_credentials(w, data) ==
    IF ~w.task.force /\ has_credentials(data)
    THEN gdc_found([w EXCEPT !.task.fast = TRUE], data, 0)
    ELSE gdc_select(w, data)

-----------------------------------------------------------------------------
(* Spec: the tasks, interleaved at their awaits *)

\* the flow object after a step of a task: the device step reads and writes
\* self._get_device_info_error
flow_after(f, before, task) ==
    IF task.op # "async_step_device" THEN f
    ELSE [get_device_info_error |-> task.get_device_info_error,
          attempts |-> IF task.call # before.call THEN f.attempts + 1
                       ELSE f.attempts,
          not_registered |-> \/ f.not_registered
                             \/ task.pc = "done" /\ task.result = NoneDict]

Step(t, w) ==
    /\ cache' = w.cache
    /\ dicts' = w.dicts
    /\ tasks' = [tasks EXCEPT ![t] = w.task]
    /\ config_flow' = flow_after(config_flow, tasks[t], w.task)
    /\ UNCHANGED <<client, last, pure, hass>>

Here(t) == World(cache, dicts, tasks[t])
CanStart(t) == tasks[t].pc \in {"idle", "done"} /\ calls < MaxCalls
\* a flow takes a login step and two attempts of the device step
MaxFlowCalls == 3
CanStartFlow(t) == tasks[t].pc \in {"idle", "done"} /\ calls < MaxFlowCalls

\* the task of a call that starts now
NewTask(op, m, address) ==
    [IdleTask EXCEPT !.op = op, !.mgr = m, !.address = address,
                     !.call = calls + 1, !.empty0 = (cache = <<>>),
                     !.known0 = (ScanCache(cache, address) # NoKey)]

StartGetDeviceCredentials(t, addresses) ==
    /\ CanStart(t)
    /\ calls' = calls + 1
    /\ \E m \in Managers, address \in addresses, force \in BOOLEAN, save \in BOOLEAN :
          Step(t, get_device_credentials(
                      World(cache, dicts,
                            [NewTask("get_device_credentials", m, address)
                                 EXCEPT !.force = force, !.save = save]),
                      dicts[m]))

StartBuildCache(t) ==
    /\ CanStart(t)
    /\ calls' = calls + 1
    /\ Step(t, build_cache_loop(
                   World(cache, Append(dicts, EmptyDict),
                         [NewTask("build_cache", FlowManager, <<>>)
                              EXCEPT !.data = Len(dicts) + 1]),
                   1))

\* login(), lines 178-179: _login(self._data, False)
StartLogin(t) ==
    /\ CanStart(t)
    /\ calls' = calls + 1
    /\ \E m \in Managers :
          Step(t, login_start(
                      World(cache, dicts,
                            [NewTask("login", m, <<>>) EXCEPT !.add = FALSE]),
                      m))

StartFlowLogin(t) ==
    /\ CanStart(t)
    /\ calls' = calls + 1
    /\ \E user_input \in UserInputs :
          Step(t, login_start(
                      World(cache, Append(dicts, user_input),
                            [NewTask("async_step_login", FlowManager, <<>>)
                                 EXCEPT !.phase = 1, !.input = Len(dicts) + 1]),
                      Len(dicts) + 1))

\* TuyaBLEOptionsFlow.async_step_login with a user input, lines 133-170: the
\* manager of the set up entry, the address of that entry
StartOptionsLogin(t) ==
    /\ CanStart(t)
    /\ calls' = calls + 1
    /\ \E user_input \in UserInputs :
          Step(t, login_start(
                      World(cache, Append(dicts, user_input),
                            [NewTask("options.async_step_login", OptionsManager,
                                     OptionsAddress)
                                 EXCEPT !.phase = 1, !.input = Len(dicts) + 1,
                                        !.force = TRUE, !.save = TRUE]),
                      Len(dicts) + 1))

\* TuyaBLEConfigFlow.async_step_device with an address chosen, lines 257-310,
\* after a login step that succeeded; force is _get_device_info_error
StartDeviceStep(t) ==
    /\ CanStartFlow(t)
    /\ has_login(dicts[FlowManager])
    /\ calls' = calls + 1
    /\ \E address \in Addresses :
          Step(t, get_device_credentials(
                      World(cache, dicts,
                            [NewTask("async_step_device", FlowManager, address)
                                 EXCEPT !.phase = 3,
                                        !.force = config_flow.get_device_info_error,
                                        !.get_device_info_error =
                                            config_flow.get_device_info_error,
                                        !.save = TRUE]),
                      dicts[FlowManager]))

TokenRequest(api) ==
    build_request(api, <<"token?grant_type=1">>, "GET", NoneDict, Now)

TokenResponse(t, every) ==
    /\ tasks[t].pc = "token"
    /\ UNCHANGED calls
    /\ \E tr \in AnswersTo(TokenRequest(tasks[t].api), every) :
          Step(t, login_return(
                      Returned(login_after_token(
                          Logged(Here(t), get_token(tasks[t].api, Now, tr).reqs, tr),
                          get_token(tasks[t].api, Now, tr),
                          dicts[tasks[t].data]))))

FillGetDevices(t, trs) == get_devices(tasks[t].api, None, Now, trs)
DevicesResponse(t, every) ==
    /\ tasks[t].pc = "devices"
    /\ UNCHANGED calls
    /\ \E tr1 \in CloudAnswersAt(FillGetDevices(t, <<Unused, Unused>>), 1, every) :
       \E tr2 \in CloudAnswersAt(FillGetDevices(t, <<tr1, Unused>>), 2, every) :
          Step(t, fill_next(
                      [Logged(Here(t), FillGetDevices(t, <<tr1, tr2>>).reqs,
                              IF Len(FillGetDevices(t, <<tr1, tr2>>).reqs) = 2
                              THEN tr2 ELSE tr1)
                          EXCEPT !.task.devs =
                              fill_devices(FillGetDevices(t, <<tr1, tr2>>).ret)]))

FillCloudRequest(t, tr) ==
    cloud_request(tasks[t].api,
                  TUYA_API_FACTORY_INFO_URL(tasks[t].devs[tasks[t].idx].id),
                  "GET", NoneDict, Now, <<tr>>)
FactoryRequest(t) ==
    build_request(tasks[t].api,
                  TUYA_API_FACTORY_INFO_URL(tasks[t].devs[tasks[t].idx].id),
                  "GET", NoneDict, Now)
FactoryResponse(t, every) ==
    /\ tasks[t].pc = "factory"
    /\ UNCHANGED calls
    /\ \E tr \in AnswersTo(FactoryRequest(t), every) :
          Step(t, fill_after_factory(
                      Logged(Here(t), FillCloudRequest(t, tr).reqs, tr),
                      factory_verdict(FillCloudRequest(t, tr).ret)))

Init ==
    /\ cache = <<>>
    /\ dicts = ManagerData
    /\ tasks = [t \in 1..NTasks |-> IdleTask]
    /\ calls = 0
    /\ client = NoApi
    /\ last = NoneDict
    /\ pure = NoCall
    /\ hass = NoHass
    /\ config_flow = NewFlow

\* Spec: NTasks callers at once, a cloud that answers truly or not at all
Next ==
    \/ \E t \in 1..NTasks : StartGetDeviceCredentials(t, Addresses)
    \/ \E t \in 1..NTasks : StartBuildCache(t)
    \/ \E t \in 1..NTasks : StartFlowLogin(t)
    \/ \E t \in 1..NTasks : TokenResponse(t, FALSE)
    \/ \E t \in 1..NTasks : DevicesResponse(t, FALSE)
    \/ \E t \in 1..NTasks : FactoryResponse(t, FALSE)

Spec == Init /\ [][Next]_vars

\* SpecSeq: one caller, its calls one after the other, every kind of answer
NextSeq ==
    \/ StartGetDeviceCredentials(1, Addresses \cup {AddrLower})
    \/ StartBuildCache(1)
    \/ StartFlowLogin(1)
    \/ TokenResponse(1, TRUE)
    \/ DevicesResponse(1, TRUE)
    \/ FactoryResponse(1, TRUE)

SpecSeq == Init /\ [][NextSeq]_vars

\* SpecFlow: one caller; the steps of the config flow and of the options
\* flow and login() without the cache, one after the other, every kind of
\* answer
NextFlow ==
    \/ StartFlowLogin(1)
    \/ StartDeviceStep(1)
    \/ StartOptionsLogin(1)
    \/ StartLogin(1)
    \/ TokenResponse(1, TRUE)
    \/ DevicesResponse(1, TRUE)
    \/ FactoryResponse(1, TRUE)

SpecFlow == Init /\ [][NextFlow]_vars

-----------------------------------------------------------------------------
(* SpecPure: the address made of a mac, the cache key made of a data dict  *)

\* the strings a factory info can carry as mac: twelve characters, of which
\* three are any hexadecimal digit, an address, a string that is too short
MacChars == {"a", "f", "B", "0", "9"}
MacInputs ==
    {<<a, "a", "b", "b", "c", b, "d", "d", "E", "E", "f", c>> :
         a \in MacChars, b \in MacChars, c \in MacChars}
    \cup {AddrAA, Addr11, <<"a", "b", "c">>}

\* the values of a login field of a data dict: none (the key is absent),
\* None, two strings
Absent == "<absent>"
FieldValues == {Absent, None, "a", "b"}
\* a data dict as the list of its items in insertion order: the login fields
\* of f that are present, from the first or from the last, after another key
\* or not
Present(f, order) == SelectSeq(order, LAMBDA k : f[k] # Absent)
Reverse(q) == [i \in 1..Len(q) |-> q[Len(q) + 1 - i]]
Items(f, other, reversed) ==
    (IF other THEN <<<<CONF_UUID, "uuid1">>>> ELSE <<>>)
    \o [i \in 1..Len(Present(f, CONF_TUYA_LOGIN_KEYS)) |->
           LET keys == IF reversed THEN Reverse(Present(f, CONF_TUYA_LOGIN_KEYS))
                       ELSE Present(f, CONF_TUYA_LOGIN_KEYS)
           IN  <<keys[i], f[keys[i]]>>]
\* dict(items)
FromItems(items) ==
    [k \in {items[i][1] : i \in 1..Len(items)} |->
        items[CHOOSE i \in 1..Len(items) :
                  /\ items[i][1] = k
                  /\ \A j \in (i + 1)..Len(items) : items[j][1] # k][2]]
\* the login fields of the first dict: two of them vary
FirstFields ==
    {[access_id |-> a, access_secret |-> "s", tuya_device_id |-> d, region |-> "eu"] :
         a \in FieldValues, d \in FieldValues}
\* the login fields of the second dict: three of them vary
SecondFields ==
    {[access_id |-> a, access_secret |-> "s", tuya_device_id |-> d, region |-> r] :
         a \in FieldValues, d \in FieldValues, r \in {"eu", "us", Absent}}
KeyInputs ==
    {<<Items(f, FALSE, FALSE), Items(g, other, reversed)>> :
         f \in FirstFields, g \in SecondFields,
         other \in BOOLEAN, reversed \in BOOLEAN}

\* the inputs of a signature: the client's key, secret and token, the time,
\* and the arguments of _make_request
SignInputs ==
    [key : {"k1", "k2"}, secret : {"s1", "s2"},
     token : {None, "", "T1", "T2"},
     t : {"1700000000000", "1700000000001"},
     method : {"GET", "POST"},
     uri : {<<"devices/", "d1">>, <<"/v1.0/iot-01/associated-users/devices">>},
     data : {NoneDict, [x |-> "1"], [x |-> "2"]}]
\* two requests that are the same or differ in one input
SignPairs ==
    {p \in SignInputs \X SignInputs :
        Cardinality({f \in DOMAIN p[1] : p[1][f] # p[2][f]}) <= 1}

\* holiday.py.  A date string "YYYY-MM-DD" is the triple of its numbers, a
\* temperature is a number of quarter degrees, bytes are a sequence of
\* numbers below 256.
is_leap(y) == y % 4 = 0 /\ (y % 100 # 0 \/ y % 400 = 0)
days_in_month(y, m) ==
    IF m = 2 THEN (IF is_leap(y) THEN 29 ELSE 28)
    ELSE IF m \in {4, 6, 9, 11} THEN 30 ELSE 31
RECURSIVE days_before_month(_, _)
days_before_month(y, m) ==
    IF m = 1 THEN 0 ELSE days_before_month(y, m - 1) + days_in_month(y, m - 1)
days_before_year(y) ==
    (y - 1) * 365 + ((y - 1) \div 4) - ((y - 1) \div 100) + ((y - 1) \div 400)
\* datetime(y, m, d, ...) accepts the date
valid_date(y, m, d) ==
    /\ y \in 1..9999 /\ m \in 1..12
    /\ d >= 1 /\ d <= days_in_month(y, m)
\* the date's ordinal, and the minutes of a datetime since 0001-01-01
toordinal(y, m, d) == days_before_year(y) + days_before_month(y, m) + d
minutes_of(dt) ==
    (toordinal(dt.year, dt.month, dt.day) * 24 + dt.hour) * 60 + dt.minute
\* the datetime of a number of minutes: the inverse of minutes_of, for the
\* years from first on
MaxSpanYears == 9
datetime_of(minutes, first) ==
    LET n == minutes \div 1440
        y == CHOOSE y \in first..(first + MaxSpanYears) :
                 days_before_year(y) < n /\ n <= days_before_year(y + 1)
        m == CHOOSE m \in 1..12 :
                 /\ days_before_month(y, m) < n - days_before_year(y)
                 /\ n - days_before_year(y)
                        <= days_before_month(y, m) + days_in_month(y, m)
    IN  [year |-> y, month |-> m,
         day |-> n - days_before_year(y) - days_before_month(y, m),
         hour |-> (minutes % 1440) \div 60, minute |-> minutes % 60]
\* datetime.strptime(date, "%Y-%m-%d").replace(hour=, minute=): the datetime,
\* or a ValueError
strptime_replace(date, hour, minute) ==
    IF valid_date(date[1], date[2], date[3]) /\ hour \in 0..23 /\ minute \in 0..59
    THEN [raised |-> FALSE, year |-> date[1], month |-> date[2], day |-> date[3],
          hour |-> hour, minute |-> minute]
    ELSE [raised |-> TRUE]

NoBytes == [none |-> TRUE]
Bytes(b) == [none |-> FALSE, bytes |-> b]
MinTemperature == 2
MaxTemperature == 118
MaxDurationHours == 65535
\* the year byte of a start year (holiday.py line 67)
year_byte(year) == (year - 2000) % 256
\* the temperature byte of a temperature (lines 74-75)
temperature_byte(temperature) == (temperature \div 2) % 256
\* the two duration bytes, high byte first (lines 78-79)
duration_bytes(duration_hours) ==
    <<(duration_hours \div 256) % 256, duration_hours % 256>>

\* HolidayModeHelper.build_holiday_data
build_holiday_data(a) ==
    LET start_dt == strptime_replace(a.start_date, a.start_hour, a.start_minute)
        end_dt == strptime_replace(a.end_date, a.end_hour, a.end_minute)
        duration_hours == (minutes_of(end_dt) - minutes_of(start_dt)) \div 60
    IN  IF start_dt.raised \/ end_dt.raised THEN NoBytes
        ELSE IF minutes_of(start_dt) >= minutes_of(end_dt) THEN NoBytes
        ELSE IF a.temperature < MinTemperature \/ a.temperature > MaxTemperature
        THEN NoBytes
        ELSE IF duration_hours > MaxDurationHours THEN NoBytes
        ELSE Bytes(<<year_byte(start_dt.year), start_dt.month % 256,
                     start_dt.day % 256, start_dt.hour % 256,
                     start_dt.minute % 256, temperature_byte(a.temperature)>>
                   \o duration_bytes(duration_hours))

\* HolidayModeHelper.parse_holiday_data on bytes: the dict, or None
parse_holiday_data(raw_data) ==
    LET start_year == 2000 + raw_data[1]
        temperature == 2 * raw_data[6]
        duration_hours == raw_data[7] * 256 + raw_data[8]
        start_dt == [year |-> start_year, month |-> raw_data[2],
                     day |-> raw_data[3], hour |-> raw_data[4],
                     minute |-> raw_data[5]]
        end_dt == datetime_of(minutes_of(start_dt) + 60 * duration_hours,
                              start_year)
    IN  IF Len(raw_data) < 8 THEN NoneDict
        ELSE IF ~(/\ valid_date(start_year, raw_data[2], raw_data[3])
                  /\ raw_data[4] \in 0..23 /\ raw_data[5] \in 0..59)
        THEN NoneDict
        ELSE [enabled |-> temperature > 0,
              temperature |-> temperature,
              start_date |-> <<start_dt.year, start_dt.month, start_dt.day>>,
              start_time |-> <<start_dt.hour, start_dt.minute>>,
              end_date |-> <<end_dt.year, end_dt.month, end_dt.day>>,
              end_time |-> <<end_dt.hour, end_dt.minute>>,
              duration_hours |-> duration_hours]

\* the arguments of build_holiday_data: temperatures at and around the two
\* limits and one between half degrees; dates before, in and after the years
\* 2000..2255, a 29 February, a date that does not exist; times that put the
\* duration at and over its limit
HolidayTemperatures == {1, 2, 81, 118, 119}
HolidayDates ==
    {<<1999, 12, 31>>, <<2000, 1, 1>>, <<2024, 2, 29>>, <<2024, 3, 1>>,
     <<2031, 8, 22>>, <<2255, 12, 31>>, <<2356, 2, 29>>, <<2356, 3, 1>>,
     <<2023, 2, 29>>}
HolidayInputs ==
    [temperature : HolidayTemperatures,
     start_date : HolidayDates, end_date : HolidayDates,
     start_hour : {0, 23}, start_minute : {0, 30},
     end_hour : {0, 15, 16}, end_minute : {0, 30}]

PureInit ==
    /\ pure \in {[NoCall EXCEPT !.fn = "normalize_mac", !.input = m] :
                    m \in MacInputs}
               \cup {[NoCall EXCEPT !.fn = "_get_cache_key", !.input = p] :
                         p \in KeyInputs}
               \cup {[NoCall EXCEPT !.fn = "_make_request", !.input = p] :
                         p \in SignPairs}
               \cup {[NoCall EXCEPT !.fn = "build_holiday_data", !.input = a] :
                         a \in HolidayInputs}
    /\ client = NoApi /\ last = NoneDict
    /\ cache = <<>> /\ dicts = <<>> /\ tasks = <<>> /\ calls = 0
    /\ hass = NoHass
    /\ config_flow = NewFlow

\* _fill_cache_item lines 203-206 on the mac
ApplyNormalizeMac ==
    /\ pure.fn = "normalize_mac" /\ ~pure.applied
    /\ pure' = [pure EXCEPT !.applied = TRUE, !.output = normalize_mac(pure.input)]
    /\ UNCHANGED <<client, last, cache, dicts, tasks, calls, hass, config_flow>>

\* _get_cache_key on each of the two dicts
ApplyGetCacheKey ==
    /\ pure.fn = "_get_cache_key" /\ ~pure.applied
    /\ pure' = [pure EXCEPT !.applied = TRUE,
                            !.output = <<get_cache_key(FromItems(pure.input[1])),
                                         get_cache_key(FromItems(pure.input[2]))>>]
    /\ UNCHANGED <<client, last, cache, dicts, tasks, calls, hass, config_flow>>

\* the client of a signature's inputs, and the request it builds
SignClient(i) ==
    [api_init("eu", i.key, i.secret, "").api EXCEPT !.token = i.token]
SignedRequest(i) == build_request(SignClient(i), i.uri, i.method, i.data, i.t)

\* _make_request lines 108-149 on each of the two inputs: the sign headers
ApplyMakeRequest ==
    /\ pure.fn = "_make_request" /\ ~pure.applied
    /\ pure' = [pure EXCEPT !.applied = TRUE,
                            !.output = <<SignedRequest(pure.input[1]).headers.sign,
                                         SignedRequest(pure.input[2]).headers.sign>>]
    /\ UNCHANGED <<client, last, cache, dicts, tasks, calls, hass, config_flow>>

\* build_holiday_data on the arguments, and parse_holiday_data on its bytes
ApplyBuildHolidayData ==
    /\ pure.fn = "build_holiday_data" /\ ~pure.applied
    /\ pure' = [pure EXCEPT
                   !.applied = TRUE,
                   !.output =
                       LET data == build_holiday_data(pure.input)
                       IN  [data |-> data,
                            parsed |-> IF data.none THEN NoneDict
                                       ELSE parse_holiday_data(data.bytes)]]
    /\ UNCHANGED <<client, last, cache, dicts, tasks, calls, hass, config_flow>>

PureNext ==
    \/ ApplyNormalizeMac
    \/ ApplyGetCacheKey
    \/ ApplyMakeRequest
    \/ ApplyBuildHolidayData
SpecPure == PureInit /\ [][PureNext]_vars

-----------------------------------------------------------------------------
(* SpecHoliday: the config entries that are set up and unloaded, and the
   calls of the service set_holiday_mode *)

otherVars == <<client, last, cache, dicts, tasks, calls, pure, config_flow>>
\* device.device_id of the device of an entry
DeviceIdOf(e) == <<"dev1", "dev2", "dev3">>[e]
\* the data of a service call that the schema accepts: a holiday, and one
\* that ends when it starts
ServiceArgs ==
    {[temperature |-> 40, start_date |-> <<2024, 3, 1>>, end_date |-> d,
      start_hour |-> 0, start_minute |-> 0, end_hour |-> 0, end_minute |-> 0] :
         d \in {<<2024, 3, 1>>, <<2031, 8, 22>>}}
ServiceDeviceIds == {DeviceIdOf(e) : e \in Entries} \cup {"dev9"}

\* hass.services.async_register(DOMAIN, "set_holiday_mode", handler): the
\* registry keeps one handler for a name, the one registered last; the handler
\* is named by the entry whose device it closes over
async_register(h, e) == [h EXCEPT !.service = e]

\* async_setup_entry of an entry that is not set up: the entry's data is put
\* in hass.data[DOMAIN] and its handler is registered
async_setup_entry(e) ==
    /\ e \notin hass.setup
    /\ hass' = async_register([hass EXCEPT !.setup = @ \cup {e}], e)
    /\ UNCHANGED otherVars

\* async_unload_entry of an entry that is set up, when the platforms unload
async_unload_entry(e) ==
    /\ e \in hass.setup
    /\ hass' = [hass EXCEPT !.setup = @ \ {e}]
    /\ UNCHANGED otherVars

\* HolidayModeHelper.set_holiday_mode on the device of entry e: the entries
\* whose DP103 is written, and the data
set_holiday_mode(e, args) ==
    LET holiday_data == build_holiday_data(args)
    IN  [data |-> holiday_data,
         wrote |-> IF holiday_data.none THEN {} ELSE {e}]
\* handle_set_holiday_mode of the entry e, called with device_id and args
handle_set_holiday_mode(e, device_id, args) ==
    IF DeviceIdOf(e) = device_id
    THEN [device |-> e] @@ set_holiday_mode(e, args)
    ELSE [device |-> 0, data |-> NoneDict, wrote |-> {}]

\* a call of the service set_holiday_mode: the registered handler runs
ServiceCall ==
    /\ hass.service # 0
    /\ \E device_id \in ServiceDeviceIds, args \in ServiceArgs :
          LET r == handle_set_holiday_mode(hass.service, device_id, args)
          IN  hass' = [hass EXCEPT
                           !.dp103 = [e \in Entries |->
                                         IF e \in r.wrote THEN r.data ELSE @[e]],
                           !.call = [device_id |-> device_id, args |-> args,
                                     setup |-> hass.setup,
                                     service |-> hass.service,
                                     device |-> r.device, data |-> r.data,
                                     wrote |-> r.wrote]]
    /\ UNCHANGED otherVars

HolidayInit ==
    /\ hass = NoHass
    /\ config_flow = NewFlow
    /\ client = NoApi /\ last = NoneDict /\ pure = NoCall
    /\ cache = <<>> /\ dicts = <<>> /\ tasks = <<>> /\ calls = 0
HolidayNext ==
    \/ \E e \in Entries : async_setup_entry(e)
    \/ \E e \in Entries : async_unload_entry(e)
    \/ ServiceCall
SpecHoliday == HolidayInit /\ [][HolidayNext]_vars


-----------------------------------------------------------------------------
(* Claims about the credential cache *)

InFill(t) == tasks[t].pc \in {"devices", "factory"}
\* the step is one of task t; it starts a call of task t
StepOf(t) == tasks'[t] # tasks[t]
Started(t) == tasks'[t].call # tasks[t].call
NonEmptyItem(c, key) ==
    /\ CacheIndex(c, key) # 0
    /\ DOMAIN c[CacheIndex(c, key)].credentials # {}
ValidFactoryAnswer(device_id) ==
    Ok(JArray(<<FactoryInfo(JString(RawMac(device_id)))>>))
IsFailureAnswer(tr) ==
    /\ tr.kind = "json" /\ IsDict(tr.body)
    /\ DOMAIN tr.body.obj = {"success", "msg", "code"}
    /\ tr.body.obj.success = FALSE

\* C1: for every interleaving of get_device_credentials, build_cache and the
\* config flow's login, at most one _fill_cache_item is in progress on the
\* same cache entry at any time.
C1_AtMostOneFillPerEntry ==
    \A t1, t2 \in 1..NTasks :
        t1 # t2 /\ InFill(t1) /\ InFill(t2) => tasks[t1].item # tasks[t2].item

\* Scenario A has happened in task t: from an empty cache, a manager with a
\* complete login and no device credentials asked for the canonical address of
\* Dev1 (not forced, nothing saved); the token request succeeded, the device
\* list was Dev1 alone and its factory info carried the MAC aabbccddeeff.
C2_Case(t) ==
    /\ tasks[t].pc = "done" /\ tasks[t].op = "get_device_credentials"
    /\ ~tasks[t].force /\ ~tasks[t].save
    /\ tasks[t].empty0
    /\ has_login(dicts[tasks[t].mgr]) /\ ~has_credentials(dicts[tasks[t].mgr])
    /\ tasks[t].devs = <<Dev1>>
    /\ tasks[t].answer = ValidFactoryAnswer("d1")
    /\ tasks[t].address = AddrAA

\* C2: in scenario A get_device_credentials returns the credential whose
\* fields are the device's uuid, local_key, id, category, product_id, name,
\* model and product_name of the device list.
C2_ScenarioA ==
    \A t \in 1..NTasks :
        C2_Case(t) =>
            tasks[t].result =
                [uuid |-> Dev1.uuid, local_key |-> Dev1.local_key,
                 device_id |-> Dev1.id, category |-> Dev1.category,
                 product_id |-> Dev1.product_id, device_name |-> Dev1.name,
                 product_model |-> Dev1.model, product_name |-> Dev1.product_name]
C2_Witness == \E t \in 1..NTasks : C2_Case(t)

\* A step of a call get_device_credentials(A, False, False) of task t, A in no
\* credential map when the call started and owned by no account the caller's
\* login yields.
C3_Case(t) ==
    /\ StepOf(t)
    /\ tasks'[t].op = "get_device_credentials"
    /\ ~tasks'[t].force /\ ~tasks'[t].save
    /\ ~tasks'[t].known0
    /\ tasks'[t].address \notin
           OwnedAddresses(DictGet(dicts[tasks'[t].mgr], CONF_ACCESS_ID, ""))
C3_Outcome(t) ==
    /\ dicts'[tasks'[t].mgr] = dicts[tasks'[t].mgr]
    /\ tasks'[t].pc = "done" => tasks'[t].result = NoneDict

\* C3 as stated: get_device_credentials(A, False, False) returns None whenever
\* A is in no credential map and no login of the caller yields an account
\* owning A, and leaves the caller's data unchanged.
C3_NotFound == [][\A t \in 1..NTasks : C3_Case(t) => C3_Outcome(t)]_vars

\* C3, amended: the same, for a caller whose data does not hold all eight
\* device fields (with them the fast path returns those fields for any address).
C3_NotFoundWithoutOwnFields ==
    [][\A t \in 1..NTasks :
          C3_Case(t) /\ ~has_credentials(dicts[tasks'[t].mgr]) => C3_Outcome(t)]_vars
C3_Witness ==
    \E t \in 1..NTasks :
        /\ tasks[t].pc = "done" /\ tasks[t].op = "get_device_credentials"
        /\ ~tasks[t].force /\ ~tasks[t].save /\ ~tasks[t].known0 /\ ~tasks[t].fast
        /\ tasks[t].address = AddrFF
        /\ tasks[t].mgr = 1 /\ dicts[1] = LoginA
        /\ Len(tasks[t].reqs) = 5
        /\ tasks[t].result = NoneDict

\* C4: with force_update False and all eight device fields in the manager's
\* data, get_device_credentials returns at once the credential made of those
\* fields, sends no request and leaves the cache as it is, whatever the
\* address and the cache.
C4_FastPath ==
    [][\A t \in 1..NTasks :
          /\ Started(t)
          /\ tasks'[t].op = "get_device_credentials"
          /\ ~tasks'[t].force
          /\ has_credentials(dicts[tasks'[t].mgr])
          => /\ tasks'[t].pc = "done"
             /\ tasks'[t].result =
                    [uuid |-> dicts[tasks'[t].mgr].uuid,
                     local_key |-> dicts[tasks'[t].mgr].local_key,
                     device_id |-> dicts[tasks'[t].mgr].device_id,
                     category |-> dicts[tasks'[t].mgr].category,
                     product_id |-> dicts[tasks'[t].mgr].product_id,
                     device_name |-> dicts[tasks'[t].mgr].device_name,
                     product_model |-> dicts[tasks'[t].mgr].product_model,
                     product_name |-> dicts[tasks'[t].mgr].product_name]
             /\ tasks'[t].reqs = <<>>
             /\ cache' = cache]_vars
C4_Witness ==
    \E t \in 1..NTasks :
        /\ tasks[t].pc = "done" /\ tasks[t].fast
        /\ tasks[t].address = AddrFF
        /\ tasks[t].result.uuid = "uuid1"
        /\ cache # <<>>

\* C5: when the token endpoint answers {success: false, msg: m, code: c},
\* _login returns {success: False, msg: m, code: c}, creates no cache entry,
\* and an entry there is keeps its client, login and credential map.
C5_FailedLogin ==
    [][\A t \in 1..NTasks :
          /\ StepOf(t)
          /\ tasks[t].pc = "token"
          /\ IsFailureAnswer(tasks'[t].answer)
          => /\ tasks'[t].login =
                    [success |-> FALSE, msg |-> tasks'[t].answer.body.obj.msg,
                     code |-> tasks'[t].answer.body.obj.code]
             /\ cache' = cache]_vars
C5_Witness ==
    \E t \in 1..NTasks :
        /\ tasks[t].pc = "done"
        /\ tasks[t].reqs = <<<<"token?grant_type=1">>>>
        /\ IsFailureAnswer(tasks[t].answer)
        /\ tasks[t].response = ErrorDict("invalid client", "1001")
        /\ CacheIndex(cache, get_cache_key(dicts[tasks[t].data])) # 0

\* C6: in a fill, no failure of the factory-info call of a device (network
\* error, success = false, empty result, no or malformed mac, a response that
\* is no object) ends the batch: the fill goes on with the next device, a
\* device whose call returned a valid MAC is in the map, nothing leaves it.
C6_FailureNeverAbortsBatch ==
    [][\A t \in 1..NTasks :
          StepOf(t) /\ tasks[t].pc = "factory"
          => /\ NextWithId(tasks[t].devs, tasks[t].idx) # 0
                => /\ tasks'[t].pc = "factory"
                   /\ tasks'[t].idx = NextWithId(tasks[t].devs, tasks[t].idx)
             /\ tasks'[t].answer = ValidFactoryAnswer(tasks[t].devs[tasks[t].idx].id)
                => AddressOf(tasks[t].devs[tasks[t].idx].id) \in
                       DOMAIN cache'[CacheIndex(cache', tasks[t].item)].credentials
             /\ \A i \in 1..Len(cache) :
                    DOMAIN cache[i].credentials \subseteq DOMAIN cache'[i].credentials
      ]_vars

\* C7: for a cache entry whose credential map is not empty, a
\* get_device_credentials that is not forced returns without any request and
\* leaves the cache as it is; build_cache starts no login and no fill for it,
\* and changes no map but the one it is filling.
C7_FilledEntryUntouched ==
    [][\A t \in 1..NTasks :
          /\ (/\ Started(t)
              /\ tasks'[t].op = "get_device_credentials"
              /\ ~tasks'[t].force
              /\ ~has_credentials(dicts[tasks'[t].mgr])
              /\ IF has_login(dicts[tasks'[t].mgr])
                 THEN NonEmptyItem(cache, get_cache_key(dicts[tasks'[t].mgr]))
                 ELSE tasks'[t].known0)
             => /\ tasks'[t].pc = "done"
                /\ tasks'[t].reqs = <<>>
                /\ cache' = cache
          /\ (StepOf(t) /\ tasks'[t].op = "build_cache")
             => /\ tasks'[t].pc \in {"token", "devices"}
                   => ~NonEmptyItem(cache', tasks'[t].cache_key)
                /\ \A i \in 1..Len(cache) :
                       cache'[i].credentials # cache[i].credentials
                       => tasks[t].pc = "factory" /\ cache[i].key = tasks[t].item
      ]_vars
C7_Witness ==
    \E t \in 1..NTasks :
        /\ tasks[t].pc = "done" /\ tasks[t].op = "build_cache"
        /\ tasks[t].reqs # <<>>
        /\ \A n \in 1..Len(tasks[t].reqs) : tasks[t].reqs[n][1] # "devices/"
        /\ NonEmptyItem(cache, get_cache_key(ConfigEntries[2]))

\* C8: the entry of an identity whose account has no device keeps an empty
\* credential map; a get_device_credentials of that identity that is not
\* forced then sends no request (no login, no fill) and returns None, a forced
\* one logs in and, the login done, fills the entry again.
C8_EmptyEntryIsFilled ==
    [][\A t \in 1..NTasks :
          /\ (/\ StepOf(t) /\ tasks[t].pc = "devices"
              /\ tasks'[t].answer = Ok(JArray(<<>>)))
             => cache' = cache
          /\ (/\ Started(t)
              /\ tasks'[t].op = "get_device_credentials"
              /\ ~has_credentials(dicts[tasks'[t].mgr])
              /\ has_login(dicts[tasks'[t].mgr])
              /\ EmptyItem(cache, get_cache_key(dicts[tasks'[t].mgr])))
             => IF tasks'[t].force
                THEN tasks'[t].pc = "token"
                ELSE /\ tasks'[t].pc = "done"
                     /\ tasks'[t].reqs = <<>>
                     /\ tasks'[t].result = NoneDict
                     /\ cache' = cache
          /\ (/\ StepOf(t) /\ tasks[t].pc = "token"
              /\ tasks[t].op = "get_device_credentials" /\ tasks[t].force
              /\ tasks'[t].answer = Ok(JObject([access_token |-> "T1"]))
              /\ EmptyItem(cache, tasks[t].cache_key))
             => tasks'[t].pc = "devices" /\ tasks'[t].item = tasks[t].cache_key
      ]_vars
C8_Witness ==
    \E t \in 1..NTasks :
        /\ tasks[t].pc = "done" /\ tasks[t].op = "get_device_credentials"
        /\ ~tasks[t].force /\ ~tasks[t].fast
        /\ dicts[tasks[t].mgr] = LoginB
        /\ tasks[t].reqs = <<>>
        /\ EmptyItem(cache, get_cache_key(LoginB))

\* C11: no cache entry is stored under a key made from login data in which
\* one of the four login fields is missing or None.
C11_NoEntryForIncompleteLogin ==
    \A i \in 1..Len(cache) :
        \A j \in 1..Len(cache[i].key) : cache[i].key[j][2] # JsonNull

\* six groups of two upper-case hexadecimal digits separated by colons
HexUpper == {"0", "1", "2", "3", "4", "5", "6", "7", "8", "9",
             "A", "B", "C", "D", "E", "F"}
Canonical(a) ==
    /\ Len(a) = 17
    /\ \A k \in 1..17 : IF k % 3 = 0 THEN a[k] = ":" ELSE a[k] \in HexUpper

\* C12: every key of every credential map is a canonical address, whatever
\* mac the factory info carried.
C12_KeysAreCanonical ==
    \A i \in 1..Len(cache) :
        \A a \in DOMAIN cache[i].credentials : Canonical(a)

\* a get_device_credentials of task t has returned that looked in the cache
\* for an address which, in upper case, is a key of the entry of the caller's
\* login or, the caller having no login, of some entry
C13_Case(t) ==
    /\ tasks[t].pc = "done" /\ tasks[t].op = "get_device_credentials"
    /\ ~tasks[t].fast
    /\ \E i \in 1..Len(cache) :
           /\ Upper(tasks[t].address) \in DOMAIN cache[i].credentials
           /\ has_login(dicts[tasks[t].mgr])
                  => cache[i].key = get_cache_key(dicts[tasks[t].mgr])

\* C13: get_device_credentials called with an address that differs from a
\* stored key in letter case only returns the stored credential, by the
\* lookup in the entry of the login and by the scan of the cache.
C13_LetterCaseIgnored ==
    \A t \in 1..NTasks : C13_Case(t) => tasks[t].result # NoneDict

\* task t returns from a get_device_credentials that found, in the entry
\* `item` of the cache, the credential of its address
FoundInEntry(t) ==
    /\ tasks'[t].pc = "done" /\ ~tasks'[t].fast
    /\ tasks'[t].result # NoneDict
    /\ tasks'[t].item # NoKey

\* C15: when get_device_credentials finds a credential in a cache entry and
\* save_data is True, the manager's data then holds the four login fields of
\* that entry and the fields of the credential; when save_data is False or
\* nothing is found the data is unchanged.
C15_WriteBack ==
    [][\A t \in 1..NTasks :
          StepOf(t) /\ tasks'[t].op = "get_device_credentials"
          => IF FoundInEntry(t) /\ tasks'[t].save
             THEN /\ get_cache_key(dicts'[tasks'[t].mgr]) = tasks'[t].item
                  /\ LET credentials ==
                             cache'[CacheIndex(cache', tasks'[t].item)]
                                 .credentials[tasks'[t].address]
                     IN  \A k \in DOMAIN credentials :
                             /\ k \in DOMAIN dicts'[tasks'[t].mgr]
                             /\ dicts'[tasks'[t].mgr][k] = credentials[k]
             ELSE ~tasks'[t].save \/ tasks'[t].result = NoneDict
                  => dicts'[tasks'[t].mgr] = dicts[tasks'[t].mgr]
      ]_vars

\* C16: no step removes an entry of the cache or changes its key: the set of
\* the keys only grows.
C16_KeysOnlyGrow ==
    [][\A i \in 1..Len(cache) :
          i <= Len(cache') /\ cache'[i].key = cache[i].key]_vars
\* a call ran to its end on a cache of two entries and left both
C16_Witness ==
    /\ Len(cache) >= 2
    /\ \E t \in 1..NTasks :
           /\ tasks[t].pc = "done" /\ tasks[t].call = 2
           /\ tasks[t].reqs # <<>>
           /\ ~tasks[t].empty0

\* TuyaCloudAPI.close, lines 73-76: the session, if one is open, is closed
close(api) == [api EXCEPT !.session = FALSE]

\* C21: every session opened by a client is closed by the time the client is
\* discarded: the client of a _login that is not kept in the cache, and the
\* client of an entry that a newer login replaces, hold no open session.
C21_SessionsClosed ==
    [][\A t \in 1..NTasks :
          StepOf(t) /\ tasks[t].pc = "token"
          => LET api == get_token(tasks[t].api, Now, tasks'[t].answer).api
             IN  /\ (\E i \in 1..Len(cache') : cache'[i].api = api)
                        \/ api = close(api)
                 /\ \A i \in 1..Len(cache) :
                        cache'[i].api # cache[i].api
                        => cache[i].api = close(cache[i].api)
      ]_vars

\* C23: the record a credential map holds for an address changes only in a
\* step of the fill of a forced get_device_credentials on that entry.
C23_RecordsChangeOnlyWhenForced ==
    [][\A i \in 1..Len(cache) :
          \A a \in DOMAIN cache[i].credentials :
              cache'[i].credentials[a] # cache[i].credentials[a]
              => \E t \in 1..NTasks :
                     /\ StepOf(t) /\ tasks[t].pc = "factory"
                     /\ tasks[t].item = cache[i].key
                     /\ tasks[t].force
      ]_vars

\* the requests of the device list among the URIs q
ListRequests(q) ==
    SelectSeq(q, LAMBDA uri : uri[1] \in {"users/",
                                          "/v1.0/iot-01/associated-users/devices"})

\* C30: a fill that gets a device list has made exactly one request of the
\* list; it then makes one factory-info request for each listed device that
\* has an id, in the order of the list, and ends after the last of them only;
\* the record of a device is in the map before the request of the next one
\* is sent.
C30_OneRequestPerDeviceInOrder ==
    [][\A t \in 1..NTasks :
          /\ StepOf(t) /\ tasks[t].pc = "devices"
             => /\ Len(ListRequests(tasks'[t].reqs))
                      <= Len(ListRequests(tasks[t].reqs)) + 1
                /\ tasks'[t].pc = "factory"
                      => /\ Len(ListRequests(tasks'[t].reqs))
                               = Len(ListRequests(tasks[t].reqs)) + 1
                         /\ tasks'[t].idx = NextWithId(tasks'[t].devs, 0)
          /\ StepOf(t) /\ tasks[t].pc = "factory"
             => /\ Len(tasks'[t].reqs) = Len(tasks[t].reqs) + 1
                /\ IF NextWithId(tasks[t].devs, tasks[t].idx) # 0
                   THEN /\ tasks'[t].pc = "factory"
                        /\ tasks'[t].devs = tasks[t].devs
                        /\ tasks'[t].idx = NextWithId(tasks[t].devs, tasks[t].idx)
                   ELSE tasks'[t].pc # "factory"
                /\ tasks'[t].answer = ValidFactoryAnswer(tasks[t].devs[tasks[t].idx].id)
                      => AddressOf(tasks[t].devs[tasks[t].idx].id) \in
                             DOMAIN cache'[CacheIndex(cache', tasks[t].item)].credentials
      ]_vars

\* the place of config entry number k in the step of build_cache: the entry
\* the call was at before the step, the entry it is at after it
EntryBefore(t) == IF Started(t) THEN 0 ELSE tasks[t].entry
EntryAfter(t) ==
    IF tasks'[t].pc = "done" THEN Len(ConfigEntries) + 1 ELSE tasks'[t].entry

\* C22: build_cache attempts every identity of the config entries. In each of
\* its steps the entries it passes over either have a non-empty credential
\* map or had a login attempt that returned without a request; the entry it
\* stops at has no non-empty map and its login is awaited; a successful login
\* is followed by the fill of that entry's empty map; and a failed login, or
\* a fill that ends, failed or not, moves on to the entries after it.
C22_EveryIdentityAttempted ==
    [][\A t \in 1..NTasks :
          StepOf(t) /\ tasks'[t].op = "build_cache"
          => /\ EntryBefore(t) <= EntryAfter(t)
             /\ \A k \in (EntryBefore(t) + 1)..(EntryAfter(t) - 1) :
                    \/ NonEmptyItem(cache', get_cache_key(ConfigEntries[k]))
                    \/ login_begin(ConfigEntries[k]).returns
             /\ EntryBefore(t) < EntryAfter(t) /\ tasks'[t].pc # "done"
                    => /\ tasks'[t].pc = "token"
                       /\ ~NonEmptyItem(cache', get_cache_key(
                                                    ConfigEntries[EntryAfter(t)]))
                       /\ tasks'[t].api = login_begin(ConfigEntries[EntryAfter(t)]).api
             /\ EntryBefore(t) = EntryAfter(t)
                    => \/ /\ tasks[t].pc = "token" /\ tasks'[t].pc = "devices"
                          /\ is_login_success(tasks'[t].login)
                       \/ InFill(t) /\ tasks'[t].pc = "factory"
             /\ tasks[t].pc = "token" /\ ~Started(t)
                /\ is_login_success(tasks'[t].login)
                /\ EmptyItem(cache', get_cache_key(ConfigEntries[tasks[t].entry]))
                    => /\ tasks'[t].pc = "devices"
                       /\ tasks'[t].item = get_cache_key(ConfigEntries[tasks[t].entry])
      ]_vars
\* a build_cache has ended whose first login failed and whose next entry was
\* logged in for and filled
C22_Witness ==
    /\ tasks[1].op = "build_cache" /\ tasks[1].pc = "done"
    /\ Len(tasks[1].reqs) > 2
    /\ tasks[1].reqs[1] = <<"token?grant_type=1">>
    /\ tasks[1].reqs[2] = <<"token?grant_type=1">>
    /\ ~NonEmptyItem(cache, get_cache_key(ConfigEntries[1]))
    /\ NonEmptyItem(cache, get_cache_key(ConfigEntries[2]))

C28_LoginWithoutCache ==
    [][\A t \in 1..NTasks :
          StepOf(t) /\ tasks'[t].op = "login"
          => /\ cache' = cache /\ dicts' = dicts
             /\ tasks'[t].pc \in {"token", "done"}
             /\ tasks'[t].pc = "done"
                => IF DOMAIN dicts[tasks'[t].mgr] = {}
                   THEN tasks'[t].response = EmptyDict
                   ELSE /\ "success" \in DOMAIN tasks'[t].response
                        /\ tasks'[t].response.success \in BOOLEAN
                        /\ ~tasks'[t].response.success
                           => DOMAIN tasks'[t].response = {"success", "msg", "code"}
      ]_vars
\* a login with add_to_cache False has succeeded and the cache has no entry
\* of its key
C28_Witness ==
    /\ tasks[1].op = "login" /\ tasks[1].pc = "done"
    /\ is_login_success(tasks[1].response)
    /\ CacheIndex(cache, get_cache_key(dicts[tasks[1].mgr])) = 0
    /\ cache # <<>>

\* the step of a flow in which its _try_login returns
TryLoginReturns(t) ==
    /\ StepOf(t) /\ tasks[t].pc = "token" /\ tasks[t].phase = 1
    /\ tasks[t].op \in {"async_step_login", "options.async_step_login"}

\* C26: in the config flow and in the options flow, a login whose response is
\* no success ends the step with the login form, its error login_error, its
\* placeholders the code and the msg of the response; no request follows, no
\* device step, no entry.
C26_LoginError ==
    [][\A t \in 1..NTasks :
          TryLoginReturns(t) /\ ~is_login_success(tasks'[t].login)
          => /\ tasks'[t].pc = "done"
             /\ tasks'[t].flow.type = "form"
             /\ tasks'[t].flow.step_id = "login"
             /\ tasks'[t].flow.errors = [base |-> "login_error"]
             /\ tasks'[t].flow.description_placeholders =
                    [code |-> DictGet(tasks'[t].login, "code", None),
                     msg |-> DictGet(tasks'[t].login, "msg", None)]
             /\ tasks'[t].flow.defaults.access_id = dicts[tasks[t].input].access_id
             /\ Len(tasks'[t].reqs) = 1
             /\ cache' = cache
      ]_vars
\* both flows have shown the login form with a code the cloud gave
C26_FlowWitness(op) ==
    /\ tasks[1].op = op /\ tasks[1].pc = "done"
    /\ tasks[1].flow # NoneDict
    /\ tasks[1].flow.type = "form"
    /\ tasks[1].flow.errors = [base |-> "login_error"]
    /\ tasks[1].flow.description_placeholders.code # None
C26_Witness == C26_FlowWitness("options.async_step_login")
C26_ConfigFlowWitness == C26_FlowWitness("async_step_login")

\* the texts a form shows: the defaults of its fields or the options to
\* choose from, and the values of its placeholders
Shown(flow) ==
    {<<flow.description_placeholders[k]>> :
        k \in DOMAIN flow.description_placeholders}
    \cup (IF flow.step_id = "login"
          THEN {<<flow.defaults[k]>> : k \in DOMAIN flow.defaults}
          ELSE flow.options)

\* a flow has ended whose login succeeded and whose get_device_credentials
\* returned None
NotRegistered(t) ==
    /\ tasks[t].pc = "done" /\ tasks[t].phase = 3
    /\ tasks[t].op \in {"async_step_device", "options.async_step_login"}
    /\ tasks[t].result = NoneDict

\* C27: when the login succeeded and get_device_credentials returned None for
\* the address, the flow shows a form with the error device_not_registered in
\* which the address is shown, and creates no entry.
C27_DeviceNotRegistered ==
    \A t \in 1..NTasks :
        NotRegistered(t)
        => /\ tasks[t].flow.type = "form"
           /\ tasks[t].flow.errors = [base |-> "device_not_registered"]
           /\ tasks[t].address \in Shown(tasks[t].flow)
\* the part of C27 that holds in both flows: the error, and no entry
C27_ErrorAndNoEntry ==
    \A t \in 1..NTasks :
        NotRegistered(t)
        => /\ tasks[t].flow.type = "form"
           /\ tasks[t].flow.errors = [base |-> "device_not_registered"]
\* in the config flow the address is among the options of the device form
C27_ConfigFlowShowsAddress ==
    \A t \in 1..NTasks :
        NotRegistered(t) /\ tasks[t].op = "async_step_device"
        => tasks[t].address \in Shown(tasks[t].flow)

\* the step in which a _login(data, True) of task t returns a success
LoginSucceeds(t) ==
    /\ StepOf(t) /\ tasks[t].pc = "token" /\ tasks[t].add
    /\ is_login_success(tasks'[t].login)

\* C31: a successful login with add_to_cache True for an identity that has an
\* entry puts its client and its data into that entry and leaves the entry's
\* credential map, the other entries and the number of entries as they were;
\* for an identity without entry one entry with an empty map is appended.
C31_LoginReusesEntry ==
    [][\A t \in 1..NTasks :
          LoginSucceeds(t)
          => LET key == get_cache_key(dicts[tasks[t].data])
                 i == CacheIndex(cache, key)
                 api == get_token(tasks[t].api, Now, tasks'[t].answer).api
             IN  IF i # 0
                 THEN /\ Len(cache') = Len(cache)
                      /\ \A j \in 1..Len(cache) : j # i => cache'[j] = cache[j]
                      /\ cache'[i].key = key
                      /\ cache'[i].credentials = cache[i].credentials
                      /\ cache'[i].api = api /\ cache'[i].login = tasks[t].data
                 ELSE cache' = Append(cache, [key |-> key, api |-> api,
                                             login |-> tasks[t].data,
                                             credentials |-> EmptyDict])
      ]_vars
\* a forced get_device_credentials has logged in again for an entry whose map
\* was filled, and now awaits the device list with the map as it was
C31_Witness ==
    /\ tasks[1].op = "get_device_credentials" /\ tasks[1].force
    /\ tasks[1].pc = "devices" /\ ~tasks[1].empty0
    /\ Len(cache) = 1
    /\ NonEmptyItem(cache, tasks[1].item)

\* the client TuyaCloudAPI(...) of _login lines 121-127 makes of a data dict
BuiltFrom(api, data) ==
    /\ api.api_key = DictGet(data, CONF_ACCESS_ID, "")
    /\ api.api_secret = DictGet(data, CONF_ACCESS_SECRET, "")
    /\ api.api_device_id = DictGet(data, CONF_TUYA_DEVICE_ID, "")
    /\ api.api_region = DictGet(data, CONF_REGION, "eu")

\* C32: in every reachable state the login stored in each cache entry has
\* the four login fields the entry's key was made of, and the entry's client
\* was built from them.
C32_StoredLoginMatchesKey ==
    \A i \in 1..Len(cache) :
        /\ get_cache_key(dicts[cache[i].login]) = cache[i].key
        /\ BuiltFrom(cache[i].api, dicts[cache[i].login])

\* task u is filling the entry of the key and each of its cloud calls so far
\* has succeeded: the devices before the one it asks about are stored
FillingWell(u, key) ==
    /\ InFill(u) /\ tasks[u].item = key
    /\ tasks[u].pc = "factory"
       => \A j \in 1..(tasks[u].idx - 1) :
              AddressOf(tasks[u].devs[j].id)
                  \in DOMAIN cache[CacheIndex(cache, key)].credentials

\* C33: a get_device_credentials that consults an entry which another
\* coroutine created and is still filling, every cloud call having succeeded,
\* does not return None for the address of a device the entry's account owns.
C33_NoPartialEntry ==
    [][\A t \in 1..NTasks :
          /\ Started(t) /\ tasks'[t].op = "get_device_credentials"
          /\ ~tasks'[t].fast /\ tasks'[t].pc = "done"
          /\ tasks'[t].item # NoKey
          /\ tasks'[t].address \in
                 OwnedAddresses(cache[CacheIndex(cache, tasks'[t].item)].api.api_key)
          /\ \E u \in 1..NTasks \ {t} : FillingWell(u, tasks'[t].item)
          => tasks'[t].result # NoneDict
      ]_vars

\* the step in which the login of a forced get_device_credentials that
\* chose entry number i of the cache returns a failure
ForcedLoginFails(t, i) ==
    /\ StepOf(t) /\ tasks[t].pc = "token"
    /\ tasks[t].op = "get_device_credentials" /\ tasks[t].force
    /\ tasks[t].item # NoKey /\ i = CacheIndex(cache, tasks[t].item)
    /\ ~is_login_success(tasks'[t].login)

\* what C34 says of the call and of the entry's place in the cache: no fill,
\* the item of the cache as it was, the credential of the map returned
ForcedFailureOutcome(t, i) ==
    /\ tasks'[t].pc = "done"
    /\ tasks'[t].reqs = Append(tasks[t].reqs, <<"token?grant_type=1">>)
    /\ cache' = cache
    /\ tasks'[t].result =
           IF tasks[t].address \in DOMAIN cache[i].credentials
           THEN TuyaBLEDeviceCredentials(cache[i].credentials[tasks[t].address])
           ELSE NoneDict

\* C34: when the login of a get_device_credentials with force_update True on
\* an entry there is fails, no fill is run, the entry's client, login and
\* credential map are as they were, the dict that is the login included, and
\* the call returns the credential the map held for the address, or None
\* when it held none.
C34_ForcedLoginFailure ==
    [][\A t \in 1..NTasks : \A i \in 1..Len(cache) :
          ForcedLoginFails(t, i)
          => /\ ForcedFailureOutcome(t, i)
             /\ dicts'[cache[i].login] = dicts[cache[i].login]
      ]_vars
\* the part of C34 that holds: all of it but the content of the login dict
C34_EntryKeptAndCredentialReturned ==
    [][\A t \in 1..NTasks : \A i \in 1..Len(cache) :
          ForcedLoginFails(t, i) => ForcedFailureOutcome(t, i)
      ]_vars

-----------------------------------------------------------------------------
(* Claims about the functions, checked under SpecPure *)

HexDigits == HexUpper \cup {"a", "b", "c", "d", "e", "f"}
\* the address of twelve hexadecimal characters, written out
AddressOfMac(m) ==
    <<UpperChar(m[1]), UpperChar(m[2]), ":", UpperChar(m[3]), UpperChar(m[4]), ":",
      UpperChar(m[5]), UpperChar(m[6]), ":", UpperChar(m[7]), UpperChar(m[8]), ":",
      UpperChar(m[9]), UpperChar(m[10]), ":", UpperChar(m[11]), UpperChar(m[12])>>
NormalizedMac == pure.fn = "normalize_mac" /\ pure.applied

\* C14, first half: the normalization maps twelve hexadecimal characters to
\* their upper-case pairs separated by colons (aabbccddeeff gives
\* AA:BB:CC:DD:EE:FF).
C14_TwelveHexCharacters ==
    /\ NormalizedMac
    /\ Len(pure.input) = 12
    /\ \A i \in 1..12 : pure.input[i] \in HexDigits
    => /\ pure.output = AddressOfMac(pure.input)
       /\ Canonical(pure.output)

\* C14: the normalization maps twelve hexadecimal characters to their
\* upper-case pairs separated by colons and returns an address that is
\* canonical already as it is.
C14_Normalization ==
    /\ C14_TwelveHexCharacters
    /\ NormalizedMac /\ Canonical(pure.input) => pure.output = pure.input

\* C17: _get_cache_key yields equal keys for two data dicts exactly when
\* their four login fields are equal (a field that is absent being None),
\* whatever the order of insertion and the other keys.
C17_KeyIsTheLoginFields ==
    pure.fn = "_get_cache_key" /\ pure.applied
    => (pure.output[1] = pure.output[2]
        <=> \A k \in {CONF_ACCESS_ID, CONF_ACCESS_SECRET, CONF_TUYA_DEVICE_ID,
                       CONF_REGION} :
                DictGet(FromItems(pure.input[1]), k, None)
                = DictGet(FromItems(pure.input[2]), k, None))
\* two dicts of equal login fields, inserted in different orders, one with a
\* key more, got equal keys
C17_Witness ==
    /\ pure.fn = "_get_cache_key" /\ pure.applied
    /\ pure.input[1] # Reverse(pure.input[2])
    /\ Len(pure.input[1]) = 4 /\ Len(pure.input[2]) = 5
    /\ pure.input[2][2][1] = CONF_REGION
    /\ pure.output[1] = pure.output[2]

\* what the claim names as the inputs of a signature, token being the token
\* or its absence
SignatureInputs(i, token) ==
    <<i.key, i.secret, token, i.t, i.method, SignedRequest(i).path,
      SignedRequest(i).signedBody>>
Differences(x, y) == Cardinality({k \in 1..Len(x) : x[k] # y[k]})
Signed == pure.fn = "_make_request" /\ pure.applied

TokenOrAbsence(i) == IF i.token = "" THEN None ELSE i.token

-----------------------------------------------------------------------------
(* Claims about the client, checked under SpecApi *)

IsTokenRequest(req) == req.uri = <<"token?grant_type=1">>

\* how _make_request must sign a request sent while the client holds `token`
SignedAsTokenRequest(req) ==
    /\ req.base = Concat(<<req.headers.client_id, req.headers.t>>)
    /\ "secret" \in DOMAIN req.headers
    /\ "access_token" \notin DOMAIN req.headers
SignedWithToken(req, token) ==
    /\ req.base = Concat(<<req.headers.client_id, token, req.headers.t>>)
    /\ "access_token" \in DOMAIN req.headers
    /\ req.headers.access_token = token
    /\ "secret" \notin DOMAIN req.headers

\* C10: every request sent by get_token (also by a repeated get_token on a
\* client that already holds a token) is signed with key + t, carries the
\* secret header and no access_token header; every other request is signed
\* with key + token + t and carries access_token and no secret header.
C10_TokenRequestsSignedWithSecret ==
    \A i \in 1..Len(last.reqs) :
        IF IsTokenRequest(last.reqs[i])
        THEN SignedAsTokenRequest(last.reqs[i])
        ELSE SignedWithToken(last.reqs[i], client.token)

\* the token a response to the token request grants, None when it grants none
GrantedToken(tr) ==
    IF /\ tr.kind = "json" /\ IsDict(tr.body)
       /\ DictGet(tr.body.obj, "success", FALSE) = TRUE
       /\ "result" \in DOMAIN tr.body.obj
       /\ HasItem(tr.body.obj.result, "access_token")
    THEN tr.body.obj.result.obj.access_token
    ELSE None
HasToken(tr) ==
    /\ tr.kind = "json" /\ IsDict(tr.body)
    /\ DictGet(tr.body.obj, "success", FALSE) = TRUE
    /\ "result" \in DOMAIN tr.body.obj
    /\ HasItem(tr.body.obj.result, "access_token")
\* the error get_token has to store for an answer that grants no token
ExpectedError(tr) ==
    CASE tr.kind # "json" ->
             {[success |-> FALSE, msg |-> RequestFailed(tr), code |-> None]}
      [] tr.kind = "json" /\ ~IsDict(tr.body) ->
             {[success |-> FALSE, msg |-> AttributeErrorText, code |-> None]}
      [] tr.kind = "json" /\ IsDict(tr.body)
             /\ DictGet(tr.body.obj, "success", FALSE) = FALSE ->
             {[success |-> FALSE,
               msg |-> DictGet(tr.body.obj, "msg", "Unknown error"),
               code |-> DictGet(tr.body.obj, "code", None)]}
      [] OTHER ->
             {[success |-> FALSE, msg |-> text, code |-> None] :
                  text \in {KeyErrorText, TypeErrorText}}

OwnRequests == SelectSeq(last.reqs, LAMBDA req : ~IsTokenRequest(req))
OwnPlace(n) == Len(last.reqs) - Len(OwnRequests) + n
\* the user id an answer to the user-id lookup gives, None when it gives none
GivenUid(tr) ==
    IF /\ tr.kind = "json" /\ IsDict(tr.body)
       /\ DictGet(tr.body.obj, "success", FALSE) = TRUE
       /\ "result" \in DOMAIN tr.body.obj
       /\ HasItem(tr.body.obj.result, "uid")
    THEN tr.body.obj.result.obj.uid
    ELSE None
IsFailureEnvelope(ret) ==
    IsDict(ret) /\ DictGet(ret.obj, "success", TRUE) = FALSE

\* C19: get_devices without user_id.  With an account device id: the user-id
\* lookup of that device comes first, the list request follows only when the
\* lookup gave a user id and asks for that user's devices; when the lookup
\* fails no list request is sent and a success = false envelope is returned.
\* Without one: one request to the associated-users endpoint, no lookup.
C19_GetDevicesOrder ==
    (last.op = "get_devices" /\ last.arg = None /\ OwnRequests # <<>>) =>
        IF Truthy(client.api_device_id)
        THEN /\ OwnRequests[1].uri = <<"devices/", client.api_device_id>>
             /\ IF Truthy(GivenUid(last.answers[OwnPlace(1)]))
                THEN /\ Len(OwnRequests) = 2
                     /\ OwnRequests[2].uri =
                            <<"users/", GivenUid(last.answers[OwnPlace(1)]),
                              "/devices">>
                ELSE /\ Len(OwnRequests) = 1
                     /\ IsFailureEnvelope(last.ret)
        ELSE /\ Len(OwnRequests) = 1
             /\ OwnRequests[1].uri = <<"/v1.0/iot-01/associated-users/devices">>
C19_Witness ==
    /\ last.op = "get_devices" /\ last.arg = None
    /\ client.api_device_id = "dev0"
    /\ Len(last.reqs) = 3
    /\ last.reqs[2].uri = <<"devices/", "dev0">>
    /\ last.reqs[3].uri = <<"users/", "uid1", "/devices">>
    /\ last.ret = Ok(JArray(<<Dev1>>)).body

\* C20: no user-id, device-list or generic request is sent while the client
\* holds no token: a call that finds no token fetches one first, and when
\* that fails it sends nothing more and returns a failure.
C20_NoRequestWithoutToken ==
    /\ \A i \in 1..Len(last.reqs) :
           ~IsTokenRequest(last.reqs[i]) =>
               /\ "access_token" \in DOMAIN last.reqs[i].headers
               /\ Truthy(last.reqs[i].headers.access_token)
    /\ (last.op \in {"get_user_id", "get_devices", "cloud_request"}
        /\ ~Truthy(last.tokenBefore)) =>
           /\ last.reqs # <<>>
           /\ IsTokenRequest(last.reqs[1])
           /\ ~Truthy(client.token) =>
                  /\ Len(last.reqs) = 1
                  /\ IF last.op = "get_user_id" THEN last.ret = None
                     ELSE IsFailureEnvelope(last.ret)
C20_Witness ==
    /\ last.op = "cloud_request"
    /\ last.tokenBefore = None
    /\ last.answers = <<Failure("invalid client", "1001")>>
    /\ Len(last.reqs) = 1
    /\ last.ret = Envelope("Failed to get token")

\* C24: every failure get_devices and cloud_request return is an envelope of
\* one shape: success = false, a message and a code.
C24_UniformFailureEnvelope ==
    last.op \in {"get_devices", "cloud_request"} /\ IsFailureEnvelope(last.ret)
    => /\ DOMAIN last.ret.obj = {"success", "msg", "code"}
       /\ last.ret.obj.success = FALSE

\* C35: for every method passed to cloud_request the verb of the request
\* that is sent is the method that was signed, and the body that is sent is
\* the body whose digest was signed.
C35_SentAsSigned ==
    last.op = "cloud_request"
    => \A i \in 1..Len(last.reqs) :
           ~IsTokenRequest(last.reqs[i])
           => /\ last.reqs[i].method = last.arg
              /\ last.reqs[i].verb = last.reqs[i].method
              /\ last.reqs[i].sentBody = last.reqs[i].signedBody
\* the part of C35 that holds: GET without data and POST are sent as signed
C35_GetAndPostSentAsSigned ==
    last.op = "cloud_request"
    => \A i \in 1..Len(last.reqs) :
           /\ ~IsTokenRequest(last.reqs[i])
           /\ last.arg = "POST" \/ (last.arg = "GET" /\ last.reqs[i].signedBody = <<>>)
           => /\ last.reqs[i].verb = last.arg
              /\ last.reqs[i].sentBody = last.reqs[i].signedBody


\* build_holiday_data was applied to dates that exist
HolidayApplied ==
    /\ pure.fn = "build_holiday_data" /\ pure.applied
    /\ valid_date(pure.input.start_date[1], pure.input.start_date[2],
                  pure.input.start_date[3])
    /\ valid_date(pure.input.end_date[1], pure.input.end_date[2],
                  pure.input.end_date[3])
HolidayStart ==
    [year |-> pure.input.start_date[1], month |-> pure.input.start_date[2],
     day |-> pure.input.start_date[3], hour |-> pure.input.start_hour,
     minute |-> pure.input.start_minute]
HolidayEnd ==
    [year |-> pure.input.end_date[1], month |-> pure.input.end_date[2],
     day |-> pure.input.end_date[3], hour |-> pure.input.end_hour,
     minute |-> pure.input.end_minute]
HolidayHours == (minutes_of(HolidayEnd) - minutes_of(HolidayStart)) \div 60
\* the three reasons for which build_holiday_data refuses
HolidayRefused ==
    \/ minutes_of(HolidayStart) >= minutes_of(HolidayEnd)
    \/ pure.input.temperature < 2
    \/ pure.input.temperature > 118
    \/ HolidayHours > 65535
\* the eight bytes, and what parse_holiday_data recovers from them; the year
\* is part of it when inYears holds of the start year
HolidayRoundTrip(inYears(_)) ==
    /\ ~pure.output.data.none
    /\ Len(pure.output.data.bytes) = 8
    /\ \A i \in 1..8 : pure.output.data.bytes[i] \in 0..255
    /\ pure.output.data.bytes[7] * 256 + pure.output.data.bytes[8] = HolidayHours
    /\ pure.output.parsed # NoneDict
    /\ pure.output.parsed.start_date[2] = HolidayStart.month
    /\ pure.output.parsed.start_date[3] = HolidayStart.day
    /\ pure.output.parsed.start_time = <<HolidayStart.hour, HolidayStart.minute>>
    /\ inYears(HolidayStart.year)
       => pure.output.parsed.start_date[1] = HolidayStart.year
    /\ pure.output.parsed.temperature
           = pure.input.temperature - (pure.input.temperature % 2)
    /\ pure.output.parsed.duration_hours = HolidayHours
In2000To2255(year) == year \in 2000..2255

\* C38: build_holiday_data returns None when the start is not before the end,
\* when the temperature is outside 0.5..29.5 or when the duration is more than
\* 65535 hours; otherwise it returns 8 bytes from which parse_holiday_data
\* recovers the start's month, day, hour and minute, its year when that is in
\* 2000..2255, the temperature in half degrees and the duration in whole
\* hours, which bytes 6-7 carry big-endian.
C38_HolidayRoundTrip ==
    HolidayApplied
    => IF HolidayRefused THEN pure.output.data.none
       ELSE HolidayRoundTrip(In2000To2255)
\* the part of C38 that holds: the same for the starts in the years 2000..2255
C38_RoundTripIn2000To2255 ==
    (HolidayApplied /\ In2000To2255(HolidayStart.year))
    => IF HolidayRefused THEN pure.output.data.none
       ELSE HolidayRoundTrip(In2000To2255)
C38_RoundTripWitness ==
    /\ HolidayApplied /\ In2000To2255(HolidayStart.year) /\ ~HolidayRefused
    /\ HolidayHours > 65000
    /\ pure.input.temperature % 2 = 1

\* the last service call named the device of an entry that was set up
NamedSetUp(e) ==
    e \in hass.call.setup /\ hass.call.device_id = DeviceIdOf(e)
\* the call was dispatched to entry e: the payload was built from the call's
\* data and written to DP103 of that device and of no other
DispatchedTo(e) ==
    /\ hass.call.device = e
    /\ hass.call.data = build_holiday_data(hass.call.args)
    /\ hass.call.wrote = (IF hass.call.data.none THEN {} ELSE {e})

\* C36: whatever entries are set up, in whatever order, a set_holiday_mode
\* call that names the device_id of a device that is set up is dispatched to
\* that device: the payload is built and DP103 is written on that device and
\* on no other.
C36_DispatchedToNamedDevice ==
    \A e \in Entries : NamedSetUp(e) => DispatchedTo(e)
\* the part of C36 that holds: the call is dispatched when it names the
\* device of the entry that was set up last
C36_LastEntryIsServed ==
    \A e \in Entries :
        (NamedSetUp(e) /\ hass.call.service = e) => DispatchedTo(e)
C36_LastEntryWitness ==
    /\ NamedSetUp(2) /\ hass.call.service = 2 /\ hass.call.setup = {1, 2}
    /\ hass.call.wrote = {2} /\ hass.dp103[2] = hass.call.data

\* an attempt of the device step starts
AttemptStarts == Started(1) /\ tasks'[1].op = "async_step_device"
\* the login of a forced attempt of the device step returns
RetryLoginReturns ==
    /\ StepOf(1) /\ tasks[1].pc = "token"
    /\ tasks[1].op = "async_step_device" /\ tasks[1].force
\* the force_update of the attempts: False for the first, True for each one
\* after an attempt that got no credentials; such an attempt does not answer
\* from the cache, it sends the login's token request
ForceOfAttempts ==
    AttemptStarts
    => /\ config_flow.attempts = 0 => ~tasks'[1].force
       /\ config_flow.not_registered
          => /\ tasks'[1].force
             /\ tasks'[1].pc = "token"
             /\ tasks'[1].reqs = <<>>

\* C37: in the device step of the config flow the first attempt calls
\* get_device_credentials with force_update False, every attempt after one
\* that ended in device_not_registered calls it with force_update True, and
\* such a retry logs in again and refills the cache entry.
C37_RetryReloginsAndRefills ==
    [][/\ ForceOfAttempts
       /\ RetryLoginReturns => tasks'[1].pc = "devices"]_vars
\* C37, amended: ... and such a retry logs in again and, when the login
\* succeeds, refills the cache entry; when the login fails it ends without a
\* refill.
C37_RetryRefillsAfterLogin ==
    [][/\ ForceOfAttempts
       /\ RetryLoginReturns
          => IF is_login_success(tasks'[1].login)
             THEN /\ tasks'[1].pc = "devices"
                  /\ tasks'[1].item = get_cache_key(dicts[FlowManager])
             ELSE tasks'[1].pc = "done"]_vars
C37_Witness ==
    /\ tasks[1].op = "async_step_device" /\ tasks[1].force
    /\ config_flow.attempts = 2 /\ config_flow.not_registered
    /\ tasks[1].pc = "devices"

====
